---- MODULE Spec2Model ----
(***************************************************************************)
(* State machine of the primary's Proposer                                 *)
(* (crates/consensus/primary/src/proposer.rs): the main loop of            *)
(* Proposer::run with its proposal gate, spawn_build_header, the           *)
(* execution-layer build task, process_header and every branch of the      *)
(* tokio::select!, together with the persistent ProposerStore and the      *)
(* header channel to the certifier.                                        *)
(***************************************************************************)
EXTENDS Integers, Sequences, FiniteSets, TLC

(* ------------------------------ bounds --------------------------------- *)
\* highest round the proposer is followed to
MaxRound == 3
\* number of batch digests the workers submit over a whole behaviour
MaxDigests == 3
\* latest reading of the clock and latest created_at of a parent
MaxTime == 3
\* longest vector of pending parents that certificates of the current round
\* are still added to
MaxPending == 4
\* highest round the proposer is followed to after it has been spawned anew
MaxRestartedRound == 1
\* longest header_resend_timeout, in ticks of the clock of the model
MaxResendTimeout == 2

(* --------------------- configuration of the proposer ------------------- *)
\* committee of the test fixture: four authorities of stake 1
CommitteeSize == 4
\* authority_id of this primary
Me == 2
\* committee.epoch()
CommitteeEpoch == 0
\* header_num_of_batches_threshold
HeaderNumOfBatchesThreshold == 1
\* max_header_num_of_batches
MaxHeaderNumOfBatches == 2

Authorities == 1..CommitteeSize
Rounds == 0..MaxRound

(* ------------------------------ committee ------------------------------ *)
\* committee.stake_by_id
StakeById(a) == 1

RECURSIVE SumStake(_)
\* the stake of a vector of certificates as enough_votes adds it up, lines
\* 432-439: one addition per entry of the vector
SumStake(certs) ==
    IF certs = <<>> THEN 0
    ELSE StakeById(Head(certs).origin) + SumStake(Tail(certs))

TotalStake == SumStake([a \in Authorities |-> [origin |-> a]])
\* committee.quorum_threshold: 2f+1
QuorumThreshold == (2 * TotalStake) \div 3 + 1
\* committee.validity_threshold: f+1
ValidityThreshold == (TotalStake + 2) \div 3
\* committee.leader(round): the leader of the wave a round belongs to
Leader(r) == ((r \div 2) % CommitteeSize) + 1

(* ----------------------------- certificates ---------------------------- *)
\* A certificate as the proposer reads it: origin(), round(), and whether
\* its header's parents hold the certificate of the previous round's leader.
MkCert(a, r, v) == [origin |-> a, round |-> r, vote |-> v]

\* Certificate::digest
CertDigest(c) == <<c.origin, c.round, c.vote>>

\* certificate.header().parents(), as far as enough_votes reads it
CertParents(c) ==
    IF c.vote /\ c.round > 0
    THEN {CertDigest(MkCert(Leader(c.round - 1), c.round - 1, FALSE))}
    ELSE {}

\* Certificate::genesis(&committee): a vector with one certificate per
\* authority, in the order of the committee
Genesis == [a \in Authorities |-> MkCert(a, 0, FALSE)]

\* the certificates that can exist for round r: one per authority, and at an
\* odd round either with or without a reference to the leader
CertsOfRound(r) ==
    {MkCert(a, r, v) : a \in Authorities, v \in (IF r % 2 = 1 THEN BOOLEAN ELSE {FALSE})}

\* messages on rx_parents: (Vec<Certificate>, Round, Epoch)
ParentMsgs(certs) ==
    {[certs |-> <<c>>, round |-> c.round, epoch |-> e] :
        c \in certs, e \in {CommitteeEpoch, CommitteeEpoch + 1}}

(* -------------------------------- helpers ------------------------------ *)
Min(a, b) == IF a < b THEN a ELSE b
MaxOf(S) == IF S = {} THEN 0 ELSE CHOOSE x \in S : \A y \in S : y <= x
MinOf(S) == CHOOSE x \in S : \A y \in S : x <= y
SeqToSet(s) == {s[i] : i \in 1..Len(s)}

VARIABLES
    pc,               \* where the proposer task is: gate, select, sleep, send, resend,
                      \* stopped, panicked
    round,            \* self.round
    lastParents,      \* self.last_parents
    lastLeader,       \* self.last_leader: <<>> or <<certificate>>
    digests,          \* self.digests
    proposedHeaders,  \* self.proposed_headers: round -> [header, digests]
    store,            \* ProposerStore last-proposed record: <<>> or <<header>>
    nextHeader,       \* the oneshot result of spawn_build_header awaited by the select
    optLatestHeader,  \* opt_latest_header: <<>> or <<header>>
    advance,          \* the local flag `advance` of run
    maxElapsed,       \* max_delay_timer.is_elapsed()
    minElapsed,       \* min_delay_timer.is_elapsed()
    sent,             \* headers delivered on tx_headers to the certifier
    received,         \* number of OurDigestMessage acknowledged so far
    firstDigest,      \* number of digests acknowledged before the current run
    committed,        \* digests of own headers reported committed
    restarted,        \* the task has been spawned again on the same store
    remaining,        \* the digests the last build of a header left in the queue
    quiet,            \* no message has arrived and no request has failed so far
    ev                \* the step the proposer took last

\* the channel of the headers to the certifier and the timer of the re-send
VARIABLES
    txHeadersOpen,    \* the receiver of tx_headers has not been dropped
    headerResendTimeout, \* self.header_resend_timeout, in ticks
    headerRepeatTimer \* header_repeat_timer: the ticks until it has elapsed

\* the clock and the timestamps of spawn_build_header
VARIABLES
    now,              \* what now() returns
    parentTimes,      \* created_at of the headers of parent_certs
    currentTime,      \* the local current_time: <<>> or <<t>>
    createdAt         \* created_at of the header built: <<>> or <<t>>

\* the notification a commit-feedback run applies
VARIABLES
    commitInput       \* committed_own_rounds of the message on rx_committed_own_headers

\* consensus output and its recovery
VARIABLES
    subDags,          \* the CommittedSubDags sent on tx_output, in emission order
    consensusLog,     \* the persisted ConsensusCommit records, in commit order
    certificateStore, \* the certificates written to the certificate store
    restored          \* <<>> or <<[k, out]>>: a run of get_restored_consensus_output

\* a FetchCertificatesRequest and the bounds read back from it
VARIABLES
    fetchInput,       \* [gc_round, skip_rounds]: the arguments of set_bounds
    request,          \* <<>> or <<what set_bounds ends with: a panic or the request>>
    bounds            \* <<>> or <<the pair get_bounds returns>>

\* two worker blocks and the digests taken of them
VARIABLES
    blocks,           \* <<WorkerBlock, WorkerBlock>>
    blockDigests      \* per block: <<>> or <<the digest() last taken of it as it is>>

\* the network genesis and the last validation of it
VARIABLES
    genesis,          \* NetworkGenesis: [chain, validators]
    validated         \* <<>> or <<[genesis, result]>>: a run of validate

\* a worker, its batch store and the worker of another authority
VARIABLES
    batchStore,       \* the local batch store: digest -> batch
    peerBatches,      \* the batches the target authority's worker holds
    sealed,           \* <<>> or <<a run of seal_batch>>
    synced            \* <<>> or <<a run of synchronize>>

\* the channel of the parents
VARIABLES
    parentsInput      \* the message rx_parents.recv() yields: [certs, round, epoch]

\* the channel of the digests and the acknowledgements sent back
VARIABLES
    arrived,          \* number of OurDigestMessage the workers have sent
    digestInput,      \* <<>> or <<the message rx_our_digests.recv() yields>>
    acks              \* the ack channels a () was sent on, in order

\* the state handler between consensus and the proposer
VARIABLES
    sequenced,        \* every (commit_round, certificates) consensus has committed, in order
    handled,          \* how many of them the state handler has received
    sendCalls,        \* the messages handed to committed_own_headers().send, in order
    ownHeaders,       \* the messages that channel has taken, in order
    ownTaken,         \* how many of them the receiver has taken out of the channel
    rxOwnOpen,        \* the receiver of committed_own_headers is alive
    handlerPc         \* "running" or "stopped"

\* the mining task of the block proposer
VARIABLES
    minePc,           \* where poll is: miner, start, task, parked
    pool,             \* the hashes of the transactions in the pool
    submitted,        \* how many transactions were put into the pool
    queued,           \* this.queued: the sets of transactions waiting to be sealed
    insertTask,       \* this.insert_task: <<>> or <<the transactions of the future>>
    watchTx,          \* the value of the watch channel: <<>> or <<the state last sent>>
    watchRx,          \* how many receivers of the watch channel are alive
    delivered,        \* what the miner returned, in order
    started,          \* the transactions of every insert future created, in order
    completed         \* per finished future: its transactions, what happened, its result

\* the primary node and the tasks it spawns
VARIABLES
    nodePc,           \* idle, joining (shutdown awaits the handles), waiting (wait
                      \* awaits them) or panicked
    handles,          \* self.handles: per JoinHandle running, finished or panicked
    txShutdown,       \* self.tx_shutdown: <<>> or <<the number of the start that made it>>
    noticed,          \* the tasks of self.handles have been sent the shutdown notice
    notices,          \* per start, in order: one entry for every notice sent
    orphans,          \* tasks spawned by a start that failed after spawning them
    calls,            \* number of calls of start and shutdown so far
    lastCall,         \* the last call and what it returned
    joined            \* the handles of self.handles have been awaited to their end

\* the broadcast of ConsensusOutput at the start of the node
VARIABLES
    startStep,        \* how many steps of start have been taken
    consensusOutputRx,\* <<>> or <<how many broadcasts the receiver made by start is past>>
    nRestored,        \* how many outputs the executor restores from the log
    broadcastLog      \* the sub_dag_index of every output broadcast, in order

\* the tasks that dial the peers
VARIABLES
    dialPc,           \* per peer: where its dial task is
    backoff,          \* per peer: the local backoff of its task, in seconds
    waits,            \* per peer: the seconds slept after each failed dial
    connectedCount    \* connected_count

\* two ConsensusOutputs and their digests
VARIABLES
    outA,             \* a ConsensusOutput
    outB,             \* another ConsensusOutput
    digestA,          \* <<>> or <<the digest computed for outA>>
    digestB,          \* <<>> or <<the digest computed for outB>>
    popped            \* what the last next_block_digest of outA returned

proposerVars == <<pc, round, lastParents, lastLeader, digests, proposedHeaders, store,
                  nextHeader, optLatestHeader, advance, maxElapsed, minElapsed, sent,
                  received, firstDigest, committed, restarted, remaining, quiet, ev>>
timeVars == <<now, parentTimes, currentTime, createdAt>>
\* what the loop of the proposer, taken without its clock, leaves alone
commitVars == <<commitInput>>
outputVars == <<subDags, consensusLog, certificateStore, restored>>
fetchVars == <<fetchInput, request, bounds>>
blockVars == <<blocks, blockDigests>>
genesisVars == <<genesis, validated>>
workerVars == <<batchStore, peerBatches, sealed, synced>>
parentsVars == <<parentsInput>>
digestVars == <<arrived, digestInput, acks>>
stateVars == <<sequenced, handled, sendCalls, ownHeaders, ownTaken, rxOwnOpen, handlerPc>>
\* the components besides the proposer, each with a specification of its own
miningVars == <<minePc, pool, submitted, queued, insertTask, watchTx, watchRx, delivered,
                started, completed>>
nodeVars == <<nodePc, handles, txShutdown, noticed, notices, orphans, calls, lastCall,
              joined>>
startVars == <<startStep, consensusOutputRx, nRestored, broadcastLog>>
dialVars == <<dialPc, backoff, waits, connectedCount>>
coverVars == <<outA, outB, digestA, digestB, popped>>
headersVars == <<txHeadersOpen, headerResendTimeout, headerRepeatTimer>>
restVars == <<stateVars, miningVars, nodeVars, startVars, dialVars, coverVars>>
laterVars == <<blockVars, genesisVars, workerVars, parentsVars, digestVars, restVars,
              headersVars>>
\* everything but the proposer, its channel to the certifier and its timer
beyondVars == <<timeVars, commitVars, outputVars, fetchVars, blockVars, genesisVars,
               workerVars, parentsVars, digestVars, restVars>>
otherVars == <<timeVars, commitVars, outputVars, fetchVars, laterVars>>
vars == <<proposerVars, otherVars>>

NoNext == [kind |-> "none"]

(* ------------------------------ the gate ------------------------------- *)
\* run, lines 489-497: the condition under which a new header is built
GateOpen(parents, ndigests, maxTimedOut, minTimedOut, adv) ==
    /\ (maxTimedOut \/ ((ndigests >= HeaderNumOfBatchesThreshold \/ minTimedOut) /\ adv))
    /\ parents # <<>>

\* the comparison made with the round before its increment
ReuseHeaderOldRound(st, r, e) ==
    /\ st # <<>>
    /\ st[1].round = r - 1
    /\ st[1].epoch = e

\* spawn_build_header, line 177: the persisted header is for this round
ReuseHeader(st, r, e) ==
    /\ st # <<>>
    /\ st[1].round = r
    /\ st[1].epoch = e

\* the whole queue is drained
NumOfDigestsAll(n) == n

\* spawn_build_header, line 196
NumOfDigests(n) == Min(n, MaxHeaderNumOfBatches)

\* spawn_build_header, line 234: the parents of the new header, read from
\* self.last_parents after line 197 has drained it
HeaderParents(pending) == {CertDigest(pending[i]) : i \in DOMAIN pending}

\* Header::new, lines 253-261
NewHeader(req) ==
    [author |-> Me, round |-> req.round, epoch |-> req.epoch,
     payload |-> req.payload, parents |-> req.parents]

(* ----------------------------- readiness ------------------------------- *)
\* this node counts as present when it is the leader itself
UpdateLeaderSelf(r, parents) ==
    LET found == SelectSeq(parents, LAMBDA c : c.origin = Leader(r)) IN
    IF Leader(r) = Me THEN <<MkCert(Me, r, FALSE)>>
    ELSE IF found = <<>> THEN <<>>
    ELSE <<found[1]>>

\* update_leader, lines 399-415: the certificate of the round's leader among
\* the pending parents (the first in the vector), if any
UpdateLeader(r, parents) ==
    LET found == SelectSeq(parents, LAMBDA c : c.origin = Leader(r)) IN
    IF found = <<>> THEN <<>>
    ELSE <<found[1]>>

\* the two thresholds exchanged
EnoughVotesSwapped(r, parents, leader) ==
    IF Leader(r + 1) = Me THEN TRUE
    ELSE IF leader = <<>> THEN TRUE
    ELSE LET votesFor == SelectSeq(parents,
                             LAMBDA c : CertDigest(leader[1]) \in CertParents(c))
             noVotes  == SelectSeq(parents,
                             LAMBDA c : CertDigest(leader[1]) \notin CertParents(c))
         IN  \/ SumStake(votesFor) >= QuorumThreshold
             \/ SumStake(noVotes) >= ValidityThreshold

\* enough_votes, lines 420-444
EnoughVotes(r, parents, leader) ==
    IF Leader(r + 1) = Me THEN TRUE
    ELSE IF leader = <<>> THEN TRUE
    ELSE LET votesFor == SelectSeq(parents,
                             LAMBDA c : CertDigest(leader[1]) \in CertParents(c))
             noVotes  == SelectSeq(parents,
                             LAMBDA c : CertDigest(leader[1]) \notin CertParents(c))
         IN  \/ SumStake(votesFor) >= ValidityThreshold
             \/ SumStake(noVotes) >= QuorumThreshold

\* no header is being stamped
TimeIdle ==
    /\ now = 0
    /\ parentTimes = {}
    /\ currentTime = <<>>
    /\ createdAt = <<>>

\* no notification is singled out
CommitIdle == commitInput = {}

\* nothing committed, nothing restored
OutputIdle ==
    /\ subDags = <<>>
    /\ consensusLog = <<>>
    /\ certificateStore = {}
    /\ restored = <<>>

\* two empty blocks of which no digest was taken
BlockIdle ==
    /\ blocks = <<[transactions |-> <<>>, received_at |-> <<>>, parent_hash |-> 0,
                   beneficiary |-> 0, timestamp |-> 0, base_fee_per_gas |-> <<>>],
                  [transactions |-> <<>>, received_at |-> <<>>, parent_hash |-> 0,
                   beneficiary |-> 0, timestamp |-> 0, base_fee_per_gas |-> <<>>]>>
    /\ blockDigests = <<<<>>, <<>>>>

\* NetworkGenesis::new, genesis.rs lines 116-119: the yukon chain and no
\* validator; nothing validated
GenesisIdle ==
    /\ genesis = [chain |-> "yukon", validators |-> <<>>]
    /\ validated = <<>>

\* create_batch_store(): empty stores and no request handled
WorkerIdle ==
    /\ batchStore = <<>>
    /\ peerBatches = {}
    /\ sealed = <<>>
    /\ synced = <<>>

\* a default request with nothing to skip, not yet built
FetchIdle ==
    /\ fetchInput = [gc_round |-> 0, skip_rounds |-> <<>>]
    /\ request = <<>>
    /\ bounds = <<>>

\* the parts of the node that the proposer, the output and the fetch
\* request do not touch are at rest
\* no message is singled out on rx_parents
\* Proposer::new, lines 107-157: tx_headers as it is handed over, its receiver
\* alive, and a header_resend_timeout of one tick; run, line 466:
\* header_repeat_timer is armed before the loop
HeadersIdle ==
    /\ txHeadersOpen = TRUE
    /\ headerResendTimeout = 1
    /\ headerRepeatTimer = headerResendTimeout

ParentsIdle == parentsInput = [certs |-> <<>>, round |-> 0, epoch |-> CommitteeEpoch]

\* no message is singled out on rx_our_digests
DigestIdle ==
    /\ arrived = 0
    /\ digestInput = <<>>
    /\ acks = <<>>

\* nothing committed, the state handler runs
StateIdle ==
    /\ sequenced = <<>>
    /\ handled = 0
    /\ sendCalls = <<>>
    /\ ownHeaders = <<>>
    /\ ownTaken = 0
    /\ rxOwnOpen = TRUE
    /\ handlerPc = "running"

\* MiningTask::new, lines 62-84, on an empty pool
MiningIdle ==
    /\ minePc = "miner"
    /\ pool = {}
    /\ submitted = 0
    /\ queued = <<>>
    /\ insertTask = <<>>
    /\ watchTx = <<>>
    /\ watchRx = 1
    /\ delivered = <<>>
    /\ started = <<>>
    /\ completed = <<>>

\* PrimaryNode::new, primary.rs lines 313-331
NodeIdle ==
    /\ nodePc = "idle"
    /\ handles = <<>>
    /\ txShutdown = <<>>
    /\ noticed = FALSE
    /\ notices = <<>>
    /\ orphans = 0
    /\ calls = 0
    /\ lastCall = [op |-> "new", result |-> "Ok"]
    /\ joined = FALSE

\* PrimaryNode::new, primary.rs lines 313-331: the channel without a receiver
StartIdle ==
    /\ startStep = 0
    /\ consensusOutputRx = <<>>
    /\ nRestored = 0
    /\ broadcastLog = <<>>

\* the peers a node dials
DialPeers == {"primary", "worker"}

\* launch_node_inner, lib.rs line 183: the counter before any task is spawned
DialIdle ==
    /\ dialPc = [p \in DialPeers |-> "idle"]
    /\ backoff = [p \in DialPeers |-> 0]
    /\ waits = [p \in DialPeers |-> <<>>]
    /\ connectedCount = 0

\* ConsensusOutput, output.rs lines 25-38: an output of no blocks, whose
\* digest has not been asked for
CoverIdle ==
    /\ outA = [sub_dag_digest |-> <<0, 0>>, blocks |-> <<>>, beneficiary |-> <<0>>,
               block_digests |-> <<>>]
    /\ outB = outA
    /\ digestA = <<>>
    /\ digestB = <<>>
    /\ popped = <<>>

RestIdle ==
    /\ StateIdle
    /\ MiningIdle
    /\ NodeIdle
    /\ StartIdle
    /\ DialIdle
    /\ CoverIdle

LaterIdle ==
    /\ BlockIdle
    /\ GenesisIdle
    /\ WorkerIdle
    /\ ParentsIdle
    /\ DigestIdle
    /\ RestIdle
    /\ HeadersIdle

\* the proposer as Proposer::spawn builds it
ProposerInit ==
    /\ pc = "gate"
    /\ round = 0
    /\ lastParents = Genesis
    /\ lastLeader = <<>>
    /\ digests = <<>>
    /\ proposedHeaders = <<>>
    /\ store = <<>>
    /\ nextHeader = NoNext
    /\ optLatestHeader = <<>>
    /\ advance = TRUE
    /\ maxElapsed = FALSE
    /\ minElapsed = FALSE
    /\ sent = {}
    /\ received = 0
    /\ firstDigest = 0
    /\ committed = {}
    /\ restarted = FALSE
    /\ remaining = <<>>
    /\ quiet = TRUE
    /\ ev = "spawn"

Init ==
    /\ ProposerInit
    /\ TimeIdle
    /\ CommitIdle
    /\ OutputIdle
    /\ FetchIdle
    /\ LaterIdle

(* --------------------------- top of the loop --------------------------- *)
\* the round the proposer is followed to: that of its first run, or that of
\* the run after Proposer::spawn has been called again
RoundBound == IF restarted THEN MaxRestartedRound ELSE MaxRound

Open == GateOpen(lastParents, Len(digests), maxElapsed, minElapsed, advance)

\* the gate is closed: opt_channel is None and the select waits for an event
GateWait ==
    /\ pc = "gate"
    /\ ~Open
    /\ pc' = "select"
    /\ nextHeader' = NoNext
    /\ ev' = "wait"
    /\ UNCHANGED otherVars
    /\ UNCHANGED <<round, lastParents, lastLeader, digests, proposedHeaders, store,
                   optLatestHeader, advance, maxElapsed, minElapsed, sent, received,
                   firstDigest, committed, restarted, remaining, quiet>>

\* the gate is open and the store already holds a header for the new round
GateReuse ==
    /\ pc = "gate"
    /\ Open
    /\ round < RoundBound
    /\ ReuseHeader(store, round + 1, CommitteeEpoch)
    /\ round' = round + 1
    /\ lastParents' = <<>>
    /\ nextHeader' = [kind |-> "ok", header |-> store[1], digests |-> <<>>]
    /\ pc' = "select"
    /\ ev' = "reuse"
    /\ UNCHANGED otherVars
    /\ UNCHANGED <<lastLeader, digests, proposedHeaders, store, optLatestHeader,
                   advance, maxElapsed, minElapsed, sent, received, firstDigest,
                   committed, restarted, remaining, quiet>>

\* the gate is open and no header of the new round is stored: lines 508 and
\* 197-201. The round is incremented and the parents and digests are drained;
\* with sleeps the task then awaits the sleep of line 214, else the request
\* for a new header goes to the execution layer at once
GateDrain(sleeps) ==
    /\ pc = "gate"
    /\ Open
    /\ round < RoundBound
    /\ ~ReuseHeader(store, round + 1, CommitteeEpoch)
    /\ LET n       == NumOfDigests(Len(digests))
           payload == SubSeq(digests, 1, n)
           \* self.last_parents once drain(..) has moved every certificate out
           remain  == SubSeq(lastParents, Len(lastParents) + 1, Len(lastParents))
       IN  /\ round' = round + 1
           /\ lastParents' = remain
           /\ digests' = SubSeq(digests, n + 1, Len(digests))
           /\ nextHeader' =
                [kind |-> IF sleeps THEN "sleeping" ELSE "building",
                 req |-> [round |-> round + 1, epoch |-> CommitteeEpoch,
                          payload |-> payload,
                          parents |-> HeaderParents(remain)],
                 parent_certs |-> lastParents,
                 header_digests |-> payload]
    /\ remaining' = digests'
    /\ pc' = IF sleeps THEN "sleep" ELSE "select"
    /\ ev' = "build"
    /\ UNCHANGED otherVars
    /\ UNCHANGED <<lastLeader, proposedHeaders, store, optLatestHeader, advance,
                   maxElapsed, minElapsed, sent, received, firstDigest, committed,
                   restarted, quiet>>

\* the clock is not behind the newest parent: no sleep
GateBuild == GateDrain(FALSE)

\* lines 205-214: now() is earlier than the created_at of the newest parent,
\* which takes a parent that is not of the genesis: the task sleeps inside
\* spawn_build_header, the request not yet made and no branch of the select
\* served
GateBuildSleep ==
    /\ \E i \in DOMAIN lastParents : lastParents[i].round > 0
    /\ GateDrain(TRUE)

\* the sleep of line 214 is over: the request goes to the execution layer
\* (lines 239-270) and run reaches the select
SleepOver ==
    /\ pc = "sleep"
    /\ nextHeader.kind = "sleeping"
    /\ nextHeader' = [nextHeader EXCEPT !.kind = "building"]
    /\ pc' = "select"
    /\ UNCHANGED otherVars
    /\ UNCHANGED <<round, lastParents, lastLeader, digests, proposedHeaders, store,
                   optLatestHeader, advance, maxElapsed, minElapsed, sent, received,
                   firstDigest, committed, restarted, remaining, quiet, ev>>

\* the gate is open and reading the store fails
GateReadErr ==
    /\ pc = "gate"
    /\ Open
    /\ round < RoundBound
    /\ round' = round + 1
    /\ nextHeader' = [kind |-> "err"]
    /\ pc' = "select"
    /\ ev' = "read_err"
    /\ quiet' = FALSE
    /\ UNCHANGED otherVars
    /\ UNCHANGED <<lastParents, lastLeader, digests, proposedHeaders, store,
                   optLatestHeader, advance, maxElapsed, minElapsed, sent, received,
                   firstDigest, committed, restarted, remaining>>

(* ---------------------- the execution-layer task ----------------------- *)
BuildOk ==
    /\ pc = "select"
    /\ nextHeader.kind = "building"
    /\ nextHeader' = [kind |-> "ok", header |-> NewHeader(nextHeader.req),
                      digests |-> <<nextHeader.header_digests>>]
    /\ UNCHANGED otherVars
    /\ UNCHANGED <<pc, round, lastParents, lastLeader, digests, proposedHeaders,
                   store, optLatestHeader, advance, maxElapsed, minElapsed, sent,
                   received, firstDigest, committed, restarted, remaining, quiet, ev>>

BuildErr ==
    /\ pc = "select"
    /\ nextHeader.kind = "building"
    /\ nextHeader' = [kind |-> "err"]
    /\ quiet' = FALSE
    /\ UNCHANGED otherVars
    /\ UNCHANGED <<pc, round, lastParents, lastLeader, digests, proposedHeaders,
                   store, optLatestHeader, advance, maxElapsed, minElapsed, sent,
                   received, firstDigest, committed, restarted, remaining, ev>>

(* ------------------------ select: next_header -------------------------- *)
\* process_header, line 293
RegisterHeader(ph, r, nh) ==
    IF nh.digests # <<>>
    THEN [q \in (DOMAIN ph) \cup {r} |->
            IF q = r THEN [header |-> nh.header, digests |-> nh.digests[1]] ELSE ph[q]]
    ELSE ph

\* process_header, lines 290-297 with a successful write
ProcessHeaderPersist ==
    /\ pc = "select"
    /\ nextHeader.kind = "ok"
    /\ proposedHeaders' = RegisterHeader(proposedHeaders, round, nextHeader)
    /\ store' = <<nextHeader.header>>
    /\ pc' = "send"
    /\ ev' = "persist"
    /\ UNCHANGED otherVars
    /\ UNCHANGED <<round, lastParents, lastLeader, digests, nextHeader,
                   optLatestHeader, advance, maxElapsed, minElapsed, sent, received,
                   firstDigest, committed, restarted, remaining, quiet>>

\* the failure of the write is ignored and the header goes out
ProcessHeaderWriteErrIgnored ==
    /\ pc = "select"
    /\ nextHeader.kind = "ok"
    /\ proposedHeaders' = RegisterHeader(proposedHeaders, round, nextHeader)
    /\ pc' = "send"
    /\ ev' = "write_err"
    /\ quiet' = FALSE
    /\ UNCHANGED otherVars
    /\ UNCHANGED <<round, lastParents, lastLeader, digests, store, nextHeader,
                   optLatestHeader, advance, maxElapsed, minElapsed, sent, received,
                   firstDigest, committed, restarted, remaining>>

\* process_header, lines 290-297 with a failing write: run panics
ProcessHeaderWriteErr ==
    /\ pc = "select"
    /\ nextHeader.kind = "ok"
    /\ proposedHeaders' = RegisterHeader(proposedHeaders, round, nextHeader)
    /\ pc' = "panicked"
    /\ ev' = "write_err"
    /\ quiet' = FALSE
    /\ UNCHANGED otherVars
    /\ UNCHANGED <<round, lastParents, lastLeader, digests, store, nextHeader,
                   optLatestHeader, advance, maxElapsed, minElapsed, sent, received,
                   firstDigest, committed, restarted, remaining>>

\* process_header, line 308, and the rest of the branch, lines 559-585: the
\* header is delivered and kept as the latest, and header_repeat_timer is set
\* anew (line 574); on a closed channel the send fails with ShuttingDown,
\* which is logged: the header is not delivered, opt_latest_header and
\* header_repeat_timer stay; the delay timers are reset in both cases
ProcessHeaderSend ==
    /\ pc = "send"
    /\ sent' = IF txHeadersOpen THEN sent \cup {nextHeader.header} ELSE sent
    /\ optLatestHeader' = IF txHeadersOpen THEN <<nextHeader.header>> ELSE optLatestHeader
    /\ headerRepeatTimer' = IF txHeadersOpen THEN headerResendTimeout
                            ELSE headerRepeatTimer
    /\ maxElapsed' = FALSE
    /\ minElapsed' = FALSE
    /\ nextHeader' = NoNext
    /\ pc' = "gate"
    /\ ev' = IF txHeadersOpen THEN "send" ELSE "send_closed"
    /\ UNCHANGED <<beyondVars, txHeadersOpen, headerResendTimeout>>
    /\ UNCHANGED <<round, lastParents, lastLeader, digests, proposedHeaders, store,
                   advance, received, firstDigest, committed, restarted, remaining, quiet>>

\* next_header resolves to an error that is not ShuttingDown: lines 549-551
NextHeaderPanic ==
    /\ pc = "select"
    /\ nextHeader.kind = "err"
    /\ pc' = "panicked"
    /\ ev' = "panic"
    /\ UNCHANGED otherVars
    /\ UNCHANGED <<round, lastParents, lastLeader, digests, proposedHeaders, store,
                   nextHeader, optLatestHeader, advance, maxElapsed, minElapsed,
                   sent, received, firstDigest, committed, restarted, remaining, quiet>>

(* --------------------- select: the other branches ---------------------- *)
\* time passes while the task awaits: header_repeat_timer comes one tick
\* closer to its deadline
RepeatTimerTick ==
    /\ pc \in {"select", "sleep", "send"}
    /\ headerRepeatTimer > 0
    /\ headerRepeatTimer' = headerRepeatTimer - 1
    /\ UNCHANGED <<proposerVars, beyondVars, txHeadersOpen, headerResendTimeout>>

\* the branch of the timer taken whether or not the timer has elapsed
HeaderRepeatUntimed ==
    /\ pc = "select"
    /\ nextHeader' = NoNext
    /\ pc' = IF optLatestHeader = <<>> THEN "gate" ELSE "resend"
    /\ ev' = IF optLatestHeader = <<>> THEN "repeat" ELSE "resend_wait"
    /\ UNCHANGED otherVars
    /\ UNCHANGED <<round, lastParents, lastLeader, digests, proposedHeaders, store,
                   optLatestHeader, advance, maxElapsed, minElapsed, sent, received,
                   firstDigest, committed, restarted, remaining, quiet>>

\* header_repeat_timer, lines 588-593: the timer has elapsed and its branch
\* is taken. With no header in opt_latest_header the branch is over and the
\* timer stays elapsed; with one, the branch awaits
\* tx_headers.send(header.clone()) of line 594, and until that send is over
\* the task serves no branch of the select
HeaderRepeat ==
    /\ pc = "select"
    /\ headerRepeatTimer = 0
    /\ nextHeader' = NoNext
    /\ pc' = IF optLatestHeader = <<>> THEN "gate" ELSE "resend"
    /\ ev' = IF optLatestHeader = <<>> THEN "repeat" ELSE "resend_wait"
    /\ UNCHANGED otherVars
    /\ UNCHANGED <<round, lastParents, lastLeader, digests, proposedHeaders, store,
                   optLatestHeader, advance, maxElapsed, minElapsed, sent, received,
                   firstDigest, committed, restarted, remaining, quiet>>

\* lines 594-600: the send of the timer branch is over. The channel has taken
\* the header of opt_latest_header, or its receiver is gone and the error is
\* logged; the timer is set again and the loop goes on
HeaderRepeatSend ==
    /\ pc = "resend"
    /\ sent' = IF txHeadersOpen THEN sent \cup {optLatestHeader[1]} ELSE sent
    /\ headerRepeatTimer' = headerResendTimeout
    /\ pc' = "gate"
    /\ ev' = IF txHeadersOpen THEN "resend" ELSE "resend_closed"
    /\ UNCHANGED <<beyondVars, txHeadersOpen, headerResendTimeout>>
    /\ UNCHANGED <<round, lastParents, lastLeader, digests, proposedHeaders, store,
                   nextHeader, optLatestHeader, advance, maxElapsed, minElapsed,
                   received, firstDigest, committed, restarted, remaining, quiet>>

RECURSIVE ConcatDigestsBackwards(_, _)
\* the payloads of the given rounds, oldest round first, each payload from
\* its last digest to its first
ConcatDigestsBackwards(ph, S) ==
    IF S = {} THEN <<>>
    ELSE LET m == MinOf(S)
             n == Len(ph[m].digests)
         IN  [i \in 1..n |-> ph[m].digests[n + 1 - i]]
                \o ConcatDigestsBackwards(ph, S \ {m})

RECURSIVE ConcatDigests(_, _)
\* lines 625-633: the payloads of the given rounds, oldest round first
ConcatDigests(ph, S) ==
    IF S = {} THEN <<>>
    ELSE LET m == MinOf(S) IN ph[m].digests \o ConcatDigests(ph, S \ {m})

\* rx_committed_own_headers, lines 604-658
CommitFeedback(commitHeaders) ==
    /\ pc = "select"
    /\ LET maxCommittedRound == MaxOf(commitHeaders)
           gone       == (DOMAIN proposedHeaders) \cap commitHeaders
           kept       == (DOMAIN proposedHeaders) \ commitHeaders
           retransmit == {r \in kept : r <= maxCommittedRound}
           resend     == ConcatDigests(proposedHeaders, retransmit)
       IN  /\ digests' = IF retransmit # {} THEN resend \o digests ELSE digests
           /\ proposedHeaders' = [r \in kept \ retransmit |-> proposedHeaders[r]]
           /\ committed' = committed \cup
                 UNION {SeqToSet(proposedHeaders[r].digests) : r \in gone}
    /\ nextHeader' = NoNext
    /\ pc' = "gate"
    /\ ev' = "commit"
    /\ quiet' = FALSE
    /\ UNCHANGED otherVars
    /\ UNCHANGED <<round, lastParents, lastLeader, store, optLatestHeader, advance,
                   maxElapsed, minElapsed, sent, received, firstDigest, restarted, remaining>>

\* ready, lines 448-453, and the leader it records
Ready(r, parents, leader) ==
    IF r % 2 = 0 THEN UpdateLeader(r, parents) # <<>>
    ELSE EnoughVotes(r, parents, leader)

\* the parents branch without the test of the message's round against the
\* round of the proposer
ParentsAnyRound(m) ==
    /\ pc = "select"
    /\ IF m.epoch # CommitteeEpoch
       THEN /\ ev' = "parents_ignored"
            /\ UNCHANGED <<round, lastParents, lastLeader, advance, maxElapsed,
                           minElapsed>>
       ELSE LET r  == m.round
                lp == IF m.round # round THEN m.certs ELSE lastParents \o m.certs
                ll == IF r % 2 = 0 THEN UpdateLeader(r, lp) ELSE lastLeader
            IN  /\ round' = r
                /\ lastParents' = lp
                /\ lastLeader' = ll
                /\ advance' = Ready(r, lp, ll)
                /\ maxElapsed' = IF m.round # round THEN FALSE ELSE maxElapsed
                /\ minElapsed' = IF m.round # round THEN FALSE ELSE minElapsed
                /\ ev' = "parents"
    /\ nextHeader' = NoNext
    /\ pc' = "gate"
    /\ quiet' = FALSE
    /\ UNCHANGED otherVars
    /\ UNCHANGED <<digests, proposedHeaders, store, optLatestHeader, sent, received,
                   firstDigest, committed, restarted, remaining>>

\* the parents branch telling apart only a greater round from the rest: the
\* certificates of an older round are added like those of the current one
ParentsStaleExtends(m) ==
    /\ pc = "select"
    /\ IF m.epoch # CommitteeEpoch
       THEN /\ ev' = "parents_ignored"
            /\ UNCHANGED <<round, lastParents, lastLeader, advance, maxElapsed,
                           minElapsed>>
       ELSE LET r  == IF m.round > round THEN m.round ELSE round
                lp == IF m.round > round THEN m.certs ELSE lastParents \o m.certs
                ll == IF r % 2 = 0 THEN UpdateLeader(r, lp) ELSE lastLeader
            IN  /\ round' = r
                /\ lastParents' = lp
                /\ lastLeader' = ll
                /\ advance' = Ready(r, lp, ll)
                /\ maxElapsed' = IF m.round > round THEN FALSE ELSE maxElapsed
                /\ minElapsed' = IF m.round > round THEN FALSE ELSE minElapsed
                /\ ev' = IF m.round < round THEN "parents_ignored" ELSE "parents"
    /\ nextHeader' = NoNext
    /\ pc' = "gate"
    /\ quiet' = FALSE
    /\ UNCHANGED otherVars
    /\ UNCHANGED <<digests, proposedHeaders, store, optLatestHeader, sent, received,
                   firstDigest, committed, restarted, remaining>>

\* the parents branch keeping the pending parents when it jumps to a greater
\* round
ParentsJumpExtends(m) ==
    /\ pc = "select"
    /\ IF m.epoch # CommitteeEpoch \/ m.round < round
       THEN /\ ev' = "parents_ignored"
            /\ UNCHANGED <<round, lastParents, lastLeader, advance, maxElapsed,
                           minElapsed>>
       ELSE LET r  == m.round
                lp == lastParents \o m.certs
                ll == IF r % 2 = 0 THEN UpdateLeader(r, lp) ELSE lastLeader
            IN  /\ round' = r
                /\ lastParents' = lp
                /\ lastLeader' = ll
                /\ advance' = Ready(r, lp, ll)
                /\ maxElapsed' = IF m.round > round THEN FALSE ELSE maxElapsed
                /\ minElapsed' = IF m.round > round THEN FALSE ELSE minElapsed
                /\ ev' = "parents"
    /\ nextHeader' = NoNext
    /\ pc' = "gate"
    /\ quiet' = FALSE
    /\ UNCHANGED otherVars
    /\ UNCHANGED <<digests, proposedHeaders, store, optLatestHeader, sent, received,
                   firstDigest, committed, restarted, remaining>>

\* rx_parents, lines 660-733
Parents(m) ==
    /\ pc = "select"
    /\ IF m.epoch # CommitteeEpoch \/ m.round < round
       THEN /\ ev' = "parents_ignored"
            /\ UNCHANGED <<round, lastParents, lastLeader, advance, maxElapsed,
                           minElapsed>>
       ELSE LET r  == m.round
                lp == IF m.round > round THEN m.certs ELSE lastParents \o m.certs
                ll == IF r % 2 = 0 THEN UpdateLeader(r, lp) ELSE lastLeader
            IN  /\ round' = r
                /\ lastParents' = lp
                /\ lastLeader' = ll
                /\ advance' = Ready(r, lp, ll)
                /\ maxElapsed' = IF m.round > round THEN FALSE ELSE maxElapsed
                /\ minElapsed' = IF m.round > round THEN FALSE ELSE minElapsed
                /\ ev' = "parents"
    /\ nextHeader' = NoNext
    /\ pc' = "gate"
    /\ quiet' = FALSE
    /\ UNCHANGED otherVars
    /\ UNCHANGED <<digests, proposedHeaders, store, optLatestHeader, sent, received,
                   firstDigest, committed, restarted, remaining>>

\* rx_our_digests, lines 736-745: acknowledge and queue
OurDigest ==
    /\ pc = "select"
    /\ received < MaxDigests
    /\ received' = received + 1
    /\ digests' = Append(digests, received + 1)
    /\ nextHeader' = NoNext
    /\ pc' = "gate"
    /\ ev' = "digest"
    /\ quiet' = FALSE
    /\ UNCHANGED otherVars
    /\ UNCHANGED <<round, lastParents, lastLeader, proposedHeaders, store,
                   optLatestHeader, advance, maxElapsed, minElapsed, sent,
                   firstDigest, committed, restarted, remaining>>

\* rx_our_digests, line 743: the message carries no ack channel and
\* take().unwrap() panics
OurDigestNoAck ==
    /\ pc = "select"
    /\ received < MaxDigests
    /\ pc' = "panicked"
    /\ nextHeader' = NoNext
    /\ ev' = "digest_panic"
    /\ quiet' = FALSE
    /\ UNCHANGED otherVars
    /\ UNCHANGED <<round, lastParents, lastLeader, digests, proposedHeaders, store,
                   optLatestHeader, advance, maxElapsed, minElapsed, sent, received,
                   firstDigest, committed, restarted, remaining>>

\* max_delay_timer, lines 748-750
MaxTimer ==
    /\ pc = "select"
    /\ ~maxElapsed
    /\ maxElapsed' = TRUE
    /\ nextHeader' = NoNext
    /\ pc' = "gate"
    /\ ev' = "max_timer"
    /\ UNCHANGED otherVars
    /\ UNCHANGED <<round, lastParents, lastLeader, digests, proposedHeaders, store,
                   optLatestHeader, advance, minElapsed, sent, received, firstDigest,
                   committed, restarted, remaining, quiet>>

\* min_delay_timer, lines 751-753
MinTimer ==
    /\ pc = "select"
    /\ ~minElapsed
    /\ minElapsed' = TRUE
    /\ nextHeader' = NoNext
    /\ pc' = "gate"
    /\ ev' = "min_timer"
    /\ UNCHANGED otherVars
    /\ UNCHANGED <<round, lastParents, lastLeader, digests, proposedHeaders, store,
                   optLatestHeader, advance, maxElapsed, sent, received, firstDigest,
                   committed, restarted, remaining, quiet>>

\* the certifier drops the receiver of tx_headers, at any moment the task is
\* awaiting. The proposer meets it at its sends only (lines 308 and 594)
HeadersReceiverDropped ==
    /\ pc \in {"select", "sleep", "send", "resend"}
    /\ txHeadersOpen
    /\ txHeadersOpen' = FALSE
    /\ UNCHANGED <<headerResendTimeout, headerRepeatTimer>>
    /\ UNCHANGED proposerVars
    /\ UNCHANGED <<timeVars, commitVars, outputVars, fetchVars, blockVars, genesisVars,
                   workerVars, parentsVars, digestVars, restVars>>

\* rx_shutdown, lines 755-757
Shutdown ==
    /\ pc = "select"
    /\ pc' = "stopped"
    /\ nextHeader' = NoNext
    /\ ev' = "shutdown"
    /\ UNCHANGED otherVars
    /\ UNCHANGED <<round, lastParents, lastLeader, digests, proposedHeaders, store,
                   optLatestHeader, advance, maxElapsed, minElapsed, sent, received,
                   firstDigest, committed, restarted, remaining, quiet>>

\* the process dies between the write of the header and its send
Crash ==
    /\ pc = "send"
    /\ pc' = "stopped"
    /\ nextHeader' = NoNext
    /\ ev' = "crash"
    /\ UNCHANGED otherVars
    /\ UNCHANGED <<round, lastParents, lastLeader, digests, proposedHeaders, store,
                   optLatestHeader, advance, maxElapsed, minElapsed, sent, received,
                   firstDigest, committed, restarted, remaining, quiet>>

\* Proposer::spawn on the same ProposerStore, lines 107-157
Restart ==
    /\ pc \in {"stopped", "panicked"}
    /\ ~restarted
    /\ restarted' = TRUE
    /\ pc' = "gate"
    /\ round' = 0
    /\ lastParents' = Genesis
    /\ lastLeader' = <<>>
    /\ digests' = <<>>
    /\ proposedHeaders' = <<>>
    /\ nextHeader' = NoNext
    /\ optLatestHeader' = <<>>
    /\ advance' = TRUE
    /\ maxElapsed' = FALSE
    /\ minElapsed' = FALSE
    /\ firstDigest' = received
    /\ committed' = {}
    /\ remaining' = <<>>
    /\ ev' = "spawn"
    \* the node that spawns the task anew has made its channels anew, and run
    \* arms the timer (line 466)
    /\ txHeadersOpen' = TRUE
    /\ headerRepeatTimer' = headerResendTimeout
    /\ UNCHANGED headerResendTimeout
    /\ UNCHANGED <<timeVars, commitVars, outputVars, fetchVars, blockVars, genesisVars,
                   workerVars, parentsVars, digestVars, restVars>>
    /\ UNCHANGED <<store, sent, received, quiet>>

\* what the core sends in a behaviour of the whole proposer: the certificates
\* of a round one at a time in the order of their authorities, those of the
\* first ValidityThreshold authorities referring to the leader
CoreMsgs ==
    ParentMsgs({c \in UNION {CertsOfRound(r) : r \in Rounds} :
        /\ c.round <= RoundBound
        /\ c.origin = Len(SelectSeq(lastParents, LAMBDA p : p.round = c.round)) + 1
        /\ c.vote = (c.round % 2 = 1 /\ c.origin <= ValidityThreshold)})

\* commit notifications of the state handler: the committed own rounds
CommitMsgs == {{}} \cup {{r} : r \in 1..MaxRound}

Next ==
    \/ GateWait
    \/ GateReuse
    \/ GateBuild
    \/ GateBuildSleep
    \/ SleepOver
    \/ GateReadErr
    \/ BuildOk
    \/ BuildErr
    \/ ProcessHeaderPersist
    \/ ProcessHeaderWriteErr
    \/ ProcessHeaderSend
    \/ NextHeaderPanic
    \/ RepeatTimerTick
    \/ HeaderRepeat
    \/ HeaderRepeatSend
    \/ \E hs \in CommitMsgs : CommitFeedback(hs)
    \/ \E m \in CoreMsgs : Parents(m)
    \/ OurDigest
    \/ OurDigestNoAck
    \/ HeadersReceiverDropped
    \/ MaxTimer
    \/ MinTimer
    \/ Shutdown
    \/ Crash
    \/ Restart

Spec == Init /\ [][Next]_vars

(* ------------- the readiness flag under arbitrary parents -------------- *)
\* any certificate of any round, in any order and with any vote, whether or
\* not it is among the pending parents already: the rx_parents branch takes
\* what it is given and extends last_parents with it (line 705)
AnyMsgs ==
    {m \in ParentMsgs(UNION {CertsOfRound(r) : r \in Rounds}) :
        m.round = round => Len(lastParents) + Len(m.certs) <= MaxPending}

\* a proposer that only receives parents: no digests, no timer, no build
ReadyNext ==
    \/ GateWait
    \/ \E m \in AnyMsgs : Parents(m)

ReadySpec == Init /\ [][ReadyNext]_vars

(* -------------- the timestamp of a new header and its sleep ------------- *)
\* spawn_build_header, line 205: parent_max_time
ParentMaxTime(times) == MaxOf(times)

\* everything of the proposer but its position
proposerRest == <<round, lastParents, lastLeader, digests, proposedHeaders, store,
                  nextHeader, optLatestHeader, advance, maxElapsed, minElapsed, sent,
                  received, firstDigest, committed, restarted, remaining, quiet, ev>>

\* spawn_build_header has drained the parents and is about to read the clock
TimeInit ==
    /\ ProposerInit
    /\ now \in 0..MaxTime
    /\ parentTimes \in SUBSET (0..MaxTime)
    /\ currentTime = <<>>
    /\ createdAt = <<>>
    /\ CommitIdle
    /\ OutputIdle
    /\ FetchIdle
    /\ LaterIdle

\* lines 206-207: current_time = now(), compared with the newest parent
ReadClock ==
    /\ pc = "gate"
    /\ currentTime = <<>>
    /\ currentTime' = <<now>>
    /\ pc' = IF now < ParentMaxTime(parentTimes) THEN "sleep" ELSE "select"
    /\ UNCHANGED <<now, parentTimes, createdAt>>
    /\ UNCHANGED <<commitVars, outputVars, fetchVars, laterVars>>
    /\ UNCHANGED proposerRest

\* line 214: sleep(drift_ms).await, awaited outside of the select
DriftSleep ==
    /\ pc = "sleep"
    /\ now' = now + (ParentMaxTime(parentTimes) - currentTime[1])
    /\ pc' = "select"
    /\ UNCHANGED <<parentTimes, currentTime, createdAt>>
    /\ UNCHANGED <<commitVars, outputVars, fetchVars, laterVars>>
    /\ UNCHANGED proposerRest

\* lines 243-261: the request and the header carry current_time
StampHeader ==
    /\ pc = "select"
    /\ currentTime # <<>>
    /\ createdAt = <<>>
    /\ createdAt' = currentTime
    /\ UNCHANGED <<now, parentTimes, currentTime>>
    /\ UNCHANGED <<commitVars, outputVars, fetchVars, laterVars>>
    /\ UNCHANGED proposerVars

\* the clock moves on while the run loop waits in the select
ClockTick ==
    /\ pc = "select"
    /\ now < MaxTime
    /\ now' = now + 1
    /\ UNCHANGED <<parentTimes, currentTime, createdAt>>
    /\ UNCHANGED <<commitVars, outputVars, fetchVars, laterVars>>
    /\ UNCHANGED proposerVars

TimeNext ==
    \/ ReadClock
    \/ DriftSleep
    \/ StampHeader
    \/ ClockTick
    \/ Shutdown

TimeSpec == TimeInit /\ [][TimeNext]_vars

(* ------------------- commit feedback on any pending map ----------------- *)
\* the proposed_headers a proposer can hold: for each round of S the header it
\* proposed then, with the max_header_num_of_batches digests it carries, for
\* the rounds of F the later digest first
PendingHeaders(S, F) ==
    [r \in S |->
        LET payload == [i \in 1..MaxHeaderNumOfBatches |->
                            IF r \in F THEN r * MaxHeaderNumOfBatches + 1 - i
                            ELSE (r - 1) * MaxHeaderNumOfBatches + i]
        IN  [header |-> NewHeader([round |-> r, epoch |-> CommitteeEpoch,
                                   payload |-> payload, parents |-> {}]),
             digests |-> payload]]

\* the digests that arrived after the ones of the pending headers
LaterDigests ==
    LET first == MaxRound * MaxHeaderNumOfBatches + 1
    IN  {<<>>, <<first>>, <<first, first + 1>>}

\* a proposer waiting in the select at round MaxRound with any pending
\* headers and queue, and the notification it is about to receive
CommitInit ==
    /\ pc = "select"
    /\ round = MaxRound
    /\ lastParents = <<>>
    /\ lastLeader = <<>>
    /\ digests \in LaterDigests
    /\ \E S \in SUBSET (1..MaxRound) : \E F \in SUBSET S :
          proposedHeaders = PendingHeaders(S, F)
    /\ store = <<>>
    /\ nextHeader = NoNext
    /\ optLatestHeader = <<>>
    /\ advance = FALSE
    /\ maxElapsed = FALSE
    /\ minElapsed = FALSE
    /\ sent = {}
    /\ received = 0
    /\ firstDigest = 0
    /\ committed = {}
    /\ restarted = FALSE
    /\ remaining = <<>>
    /\ quiet = TRUE
    /\ ev = "wait"
    /\ commitInput \in SUBSET (1..MaxRound)
    /\ TimeIdle
    /\ OutputIdle
    /\ FetchIdle
    /\ LaterIdle

CommitNext ==
    \/ CommitFeedback(commitInput)
    \/ GateWait

CommitSpec == CommitInit /\ [][CommitNext]_vars

(* ------------------ the re-send timer of a running task ----------------- *)
\* the proposer while its task runs: no shutdown, no crash, no failing
\* store or build
ResendNext ==
    \/ GateWait
    \/ GateBuild
    \/ GateBuildSleep
    \/ SleepOver
    \/ BuildOk
    \/ ProcessHeaderPersist
    \/ ProcessHeaderSend
    \/ RepeatTimerTick
    \/ HeaderRepeat
    \/ HeaderRepeatSend
    \/ \E m \in CoreMsgs : Parents(m)
    \/ OurDigest
    \/ MaxTimer
    \/ MinTimer

\* the proposer as Proposer::spawn builds it, with a header_resend_timeout
\* of one tick or more
ResendInit ==
    /\ ProposerInit
    /\ TimeIdle
    /\ CommitIdle
    /\ OutputIdle
    /\ FetchIdle
    /\ BlockIdle
    /\ GenesisIdle
    /\ WorkerIdle
    /\ ParentsIdle
    /\ DigestIdle
    /\ RestIdle
    /\ txHeadersOpen = TRUE
    /\ headerResendTimeout \in 1..MaxResendTimeout
    /\ headerRepeatTimer = headerResendTimeout

\* the loop of run keeps going, time passes whenever the task awaits, and
\* tokio::select! picks at random among the branches that are ready: a timer
\* that has elapsed is taken in the end
ResendSpec ==
    /\ ResendInit
    /\ [][ResendNext]_vars
    /\ WF_vars(ResendNext)
    /\ SF_vars(RepeatTimerTick)
    /\ SF_vars(HeaderRepeat)

(* ------------------ committed sub-DAGs and their recovery --------------- *)
\* a certificate as the consensus output reads it: origin, round and the
\* created_at of its header
OutputCert(a, r, t) == [origin |-> a, round |-> r, created_at |-> t]

\* Certificate::digest of such a certificate
OutputCertDigest(c) == <<c.origin, c.round, c.created_at>>

\* the sub-DAG keeps the timestamp of its leader alone
CommittedSubDagNewLeaderTime(certificates, leader, sub_dag_index, reputation_score, previous_sub_dag) ==
    [certificates |-> certificates, leader |-> leader,
     sub_dag_index |-> sub_dag_index, reputation_score |-> reputation_score,
     commit_timestamp |-> leader.created_at]

\* CommittedSubDag::new, output.rs lines 156-174; previous_sub_dag is <<>>
\* (None) or <<sub-DAG>>
CommittedSubDagNew(certificates, leader, sub_dag_index, reputation_score, previous_sub_dag) ==
    LET previous_sub_dag_ts ==
            IF previous_sub_dag = <<>> THEN 0 ELSE previous_sub_dag[1].commit_timestamp
        commit_timestamp ==
            IF previous_sub_dag_ts > leader.created_at
            THEN previous_sub_dag_ts ELSE leader.created_at
    IN  [certificates |-> certificates, leader |-> leader,
         sub_dag_index |-> sub_dag_index, reputation_score |-> reputation_score,
         commit_timestamp |-> commit_timestamp]

\* CommittedSubDag::commit_timestamp(), output.rs lines 211-219
CommitTimestamp(s) ==
    IF s.commit_timestamp = 0 THEN s.leader.created_at ELSE s.commit_timestamp

\* CommittedSubDag::digest, output.rs lines 222-238: the hash of the
\* certificate digests, the leader digest, the index, the scores and the
\* commit_timestamp field
SubDagDigest(s) ==
    <<[i \in 1..Len(s.certificates) |-> OutputCertDigest(s.certificates[i])],
      OutputCertDigest(s.leader), s.sub_dag_index, s.reputation_score,
      s.commit_timestamp>>

\* ConsensusCommit::from_sub_dag, output.rs lines 265-275
FromSubDag(sub_dag) ==
    [certificates |-> [i \in 1..Len(sub_dag.certificates) |->
                            OutputCertDigest(sub_dag.certificates[i])],
     leader |-> OutputCertDigest(sub_dag.leader),
     leader_round |-> sub_dag.leader.round,
     sub_dag_index |-> sub_dag.sub_dag_index,
     reputation_score |-> sub_dag.reputation_score,
     commit_timestamp |-> sub_dag.commit_timestamp]

\* the sub-DAG is rebuilt with the timestamp of its leader
FromCommitLeaderTime(commit, certificates, leader) ==
    [certificates |-> certificates, leader |-> leader,
     sub_dag_index |-> commit.sub_dag_index,
     reputation_score |-> commit.reputation_score,
     commit_timestamp |-> leader.created_at]

\* CommittedSubDag::from_commit, output.rs lines 176-188
FromCommit(commit, certificates, leader) ==
    [certificates |-> certificates, leader |-> leader,
     sub_dag_index |-> commit.sub_dag_index,
     reputation_score |-> commit.reputation_score,
     commit_timestamp |-> commit.commit_timestamp]

\* the index repeats the previous one
NextSubDagIndexSame(previous_sub_dag) ==
    IF previous_sub_dag = <<>> THEN 1 ELSE previous_sub_dag[1].sub_dag_index

\* the index consensus gives the next sub-DAG: the previous one + 1, the
\* first one being 1
NextSubDagIndex(previous_sub_dag) ==
    IF previous_sub_dag = <<>> THEN 1 ELSE previous_sub_dag[1].sub_dag_index + 1

\* the certificate store read by digest
ReadCert(store_, d) == CHOOSE c \in store_ : OutputCertDigest(c) = d

\* the log is replayed from the last executed sub-DAG itself
GetRestoredConsensusOutputFromLast(log, store_, last_executed) ==
    LET missing == SelectSeq(log, LAMBDA c : c.sub_dag_index >= last_executed)
    IN  [i \in 1..Len(missing) |->
            FromCommit(missing[i],
                       [j \in 1..Len(missing[i].certificates) |->
                            ReadCert(store_, missing[i].certificates[j])],
                       ReadCert(store_, missing[i].leader))]

\* get_restored_consensus_output: every commit of the log above the last
\* executed index, in log order, re-hydrated from the certificate store
GetRestoredConsensusOutput(log, store_, last_executed) ==
    LET missing == SelectSeq(log, LAMBDA c : c.sub_dag_index > last_executed)
    IN  [i \in 1..Len(missing) |->
            FromCommit(missing[i],
                       [j \in 1..Len(missing[i].certificates) |->
                            ReadCert(store_, missing[i].certificates[j])],
                       ReadCert(store_, missing[i].leader))]

\* how many sub-DAGs a behaviour commits
MaxSubDags == 3

\* the reputation scores, as far as they can differ
Scores == {0, 1}

\* consensus commits the leader of the next even round: the sub-DAG holds a
\* certificate of the round before and the leader, it is written to the
\* consensus log and sent on tx_output
CommitSubDag(t, score) ==
    /\ Len(subDags) < MaxSubDags
    /\ LET previous == IF subDags = <<>> THEN <<>> ELSE <<subDags[Len(subDags)]>>
           r        == 2 * (Len(subDags) + 1)
           leader   == OutputCert(Leader(r), r, t)
           other    == OutputCert(Leader(r - 1), r - 1, 0)
           s        == CommittedSubDagNew(<<other, leader>>, leader,
                                          NextSubDagIndex(previous), score, previous)
       IN  /\ subDags' = Append(subDags, s)
           /\ consensusLog' = Append(consensusLog, FromSubDag(s))
           /\ certificateStore' = certificateStore \cup {other, leader}
    /\ UNCHANGED restored
    /\ UNCHANGED <<proposerVars, timeVars, commitVars, fetchVars, laterVars>>

\* the node starts again with last_executed_sub_dag_index = k
Restore(k) ==
    /\ restored' = <<[k |-> k,
                     out |-> GetRestoredConsensusOutput(consensusLog, certificateStore, k)]>>
    /\ UNCHANGED <<subDags, consensusLog, certificateStore>>
    /\ UNCHANGED <<proposerVars, timeVars, commitVars, fetchVars, laterVars>>

OutputNext ==
    \/ \E t \in 0..MaxTime, score \in Scores : CommitSubDag(t, score)
    \/ \E k \in 0..Len(consensusLog) : Restore(k)

OutputSpec == Init /\ [][OutputNext]_vars

(* ---------------- the bounds of a FetchCertificatesRequest -------------- *)
\* the rounds and garbage-collection rounds a request is built from
MaxFetchRound == 4

\* the authorities a request can name
FetchAuthorities == {1, 2}

RECURSIVE BitmapSerialize(_)
\* RoaringBitmap::serialize_into: the set of u32 as the number whose bit d
\* is set for every member d
BitmapSerialize(S) ==
    IF S = {} THEN 0
    ELSE LET d == CHOOSE x \in S : TRUE IN 2 ^ d + BitmapSerialize(S \ {d})

\* RoaringBitmap::deserialize_from: the members of a serialized bitmap
BitmapDeserialize(n) == {d \in 0..MaxFetchRound : (n \div (2 ^ d)) % 2 = 1}

\* RoaringBitmap::deserialize_from returns Err: the bytes are not a serialized
\* bitmap; such bytes are written as a negative number
DeserializeFails(n) == n < 0

\* set_bounds line 113: v - gc_round on Round, then u32::try_from(..).unwrap().
\* Below gc_round the subtraction overflows: a checked build panics there, an
\* unchecked one wraps to a value no u32 holds and panics in unwrap. At or
\* above gc_round every difference of the rounds drawn here fits a u32.
RoundDiffPanics(v, gc_round) == v < gc_round

\* the u32 that set_bounds puts into the bitmap
RoundDiff(v, gc_round) == v - gc_round

\* set_bounds, communication.rs lines 101-121: a panic or the request
SetBounds(gc_round, skip_rounds) ==
    IF \E k \in DOMAIN skip_rounds : \E v \in skip_rounds[k] :
            RoundDiffPanics(v, gc_round)
    THEN [kind |-> "panic"]
    ELSE [kind |-> "ok",
          exclusive_lower_bound |-> gc_round,
          skip_rounds |-> [k \in DOMAIN skip_rounds |->
                BitmapSerialize({RoundDiff(v, gc_round) : v \in skip_rounds[k]})]]

\* bit i is read as round exclusive_lower_bound + 1 + i
GetBoundsAboveBound(req) ==
    <<req.exclusive_lower_bound,
      [k \in DOMAIN req.skip_rounds |->
            {req.exclusive_lower_bound + 1 + r : r \in BitmapDeserialize(req.skip_rounds[k])}]>>

\* get_bounds, communication.rs lines 77-98: an entry whose bytes do not
\* deserialize is left out (lines 90-93)
GetBounds(req) ==
    <<req.exclusive_lower_bound,
      [k \in {j \in DOMAIN req.skip_rounds : ~DeserializeFails(req.skip_rounds[j])} |->
            {req.exclusive_lower_bound + r : r \in BitmapDeserialize(req.skip_rounds[k])}]>>

\* any gc_round and any map of round sets
FetchInit ==
    /\ ProposerInit
    /\ TimeIdle
    /\ CommitIdle
    /\ OutputIdle
    /\ LaterIdle
    /\ \E g \in 0..MaxFetchRound, A \in SUBSET FetchAuthorities :
          \E m \in [A -> SUBSET (0..MaxFetchRound)] :
              fetchInput = [gc_round |-> g, skip_rounds |-> m]
    /\ request = <<>>
    /\ bounds = <<>>

\* FetchCertificatesRequest::default().set_bounds(gc_round, skip_rounds)
SetBoundsStep ==
    /\ request = <<>>
    /\ request' = <<SetBounds(fetchInput.gc_round, fetchInput.skip_rounds)>>
    /\ UNCHANGED <<fetchInput, bounds>>
    /\ UNCHANGED <<proposerVars, timeVars, commitVars, outputVars, laterVars>>

\* a request arrives from a peer instead: skip_rounds is a public field and
\* holds whatever the peer wrote, here for each authority either the bitmap of
\* the drawn set or bytes that are no bitmap
ReceiveRequest(corrupt) ==
    /\ request = <<>>
    /\ request' = <<[kind |-> "received",
                     exclusive_lower_bound |-> fetchInput.gc_round,
                     skip_rounds |-> [k \in DOMAIN fetchInput.skip_rounds |->
                         IF k \in corrupt THEN -1
                         ELSE BitmapSerialize(fetchInput.skip_rounds[k])]]>>
    /\ UNCHANGED <<fetchInput, bounds>>
    /\ UNCHANGED <<proposerVars, timeVars, commitVars, outputVars, laterVars>>

\* request.get_bounds()
GetBoundsStep ==
    /\ request # <<>>
    /\ request[1].kind \in {"ok", "received"}
    /\ bounds = <<>>
    /\ bounds' = <<GetBounds(request[1])>>
    /\ UNCHANGED <<fetchInput, request>>
    /\ UNCHANGED <<proposerVars, timeVars, commitVars, outputVars, laterVars>>

FetchNext ==
    \/ SetBoundsStep
    \/ \E corrupt \in SUBSET (DOMAIN fetchInput.skip_rounds) : ReceiveRequest(corrupt)
    \/ GetBoundsStep

FetchSpec == FetchInit /\ [][FetchNext]_vars

(* ------------------ the rest of the node: what stays put ---------------- *)
\* the proposer, its clock, the output and the fetch request at rest
EarlierIdle ==
    /\ ProposerInit
    /\ TimeIdle
    /\ CommitIdle
    /\ OutputIdle
    /\ FetchIdle
    /\ ParentsIdle
    /\ DigestIdle
    /\ RestIdle
    /\ HeadersIdle

earlierVars == <<proposerVars, timeVars, commitVars, outputVars, fetchVars, parentsVars,
                 digestVars, restVars, headersVars>>

\* the proposer and everything modelled around it at rest
PriorIdle ==
    /\ ProposerInit
    /\ TimeIdle
    /\ CommitIdle
    /\ OutputIdle
    /\ FetchIdle
    /\ BlockIdle
    /\ GenesisIdle
    /\ WorkerIdle
    /\ ParentsIdle
    /\ DigestIdle
    /\ HeadersIdle

priorVars == <<proposerVars, timeVars, commitVars, outputVars, fetchVars, blockVars,
               genesisVars, workerVars, parentsVars, digestVars, headersVars>>

(* ------------------------- worker blocks and digests -------------------- *)
\* the values a field of a block takes here
BlockTimes == {0, 1}
BlockHashes == {0, 1}
BlockFees == {<<>>, <<7>>}
BlockTransactions == {<<>>, <<1>>}

\* WorkerBlock, worker_block.rs lines 36-62; an Option is <<>> or <<value>>
WorkerBlocks ==
    [transactions : BlockTransactions, received_at : {<<>>},
     parent_hash : BlockHashes, beneficiary : {0},
     timestamp : BlockTimes, base_fee_per_gas : BlockFees]

\* every field is serialized, received_at as well
EncodeWorkerBlockAll(b) ==
    <<b.transactions, b.received_at, b.parent_hash, b.beneficiary, b.timestamp,
      b.base_fee_per_gas>>

\* encode(self): the serde encoding of the fields in declaration order;
\* received_at is #[serde(skip)] (lines 42-44)
EncodeWorkerBlock(b) ==
    <<b.transactions, b.parent_hash, b.beneficiary, b.timestamp, b.base_fee_per_gas>>

\* WorkerBlock::digest, lines 85-91: the hash of the encoding
WorkerBlockDigest(b) == <<"hash", EncodeWorkerBlock(b)>>

\* the fields of a block other than received_at agree
SameContent(a, b) ==
    /\ a.transactions = b.transactions
    /\ a.parent_hash = b.parent_hash
    /\ a.beneficiary = b.beneficiary
    /\ a.timestamp = b.timestamp
    /\ a.base_fee_per_gas = b.base_fee_per_gas

\* any two blocks, neither received yet
BlockInit ==
    /\ EarlierIdle
    /\ blocks \in [1..2 -> WorkerBlocks]
    /\ blockDigests = <<<<>>, <<>>>>
    /\ GenesisIdle
    /\ WorkerIdle

\* set_received_at, lines 178-180
SetReceivedAt(i, time) ==
    /\ blocks' = [blocks EXCEPT ![i].received_at = <<time>>]
    /\ UNCHANGED blockDigests
    /\ UNCHANGED <<earlierVars, genesisVars, workerVars>>

\* the sealed headers update_header_for_test is given
BlockSealedHeaders ==
    [parent_hash : BlockHashes, beneficiary : {0}, timestamp : BlockTimes,
     base_fee_per_gas : BlockFees]

\* update_header_for_test, lines 95-100: the four header fields are replaced
\* by those of the sealed header; a digest taken before is not one of the
\* block as it is now
UpdateHeaderForTest(i, sealed_header) ==
    /\ blocks' = [blocks EXCEPT ![i].parent_hash = sealed_header.parent_hash,
                                ![i].beneficiary = sealed_header.beneficiary,
                                ![i].timestamp = sealed_header.timestamp,
                                ![i].base_fee_per_gas = sealed_header.base_fee_per_gas]
    /\ blockDigests' = IF SameContent(blocks'[i], blocks[i]) THEN blockDigests
                       ELSE [blockDigests EXCEPT ![i] = <<>>]
    /\ UNCHANGED <<earlierVars, genesisVars, workerVars>>

\* transactions_mut, lines 113-115: the caller writes the transactions
\* through the reference
TransactionsMut(i, transactions) ==
    /\ blocks' = [blocks EXCEPT ![i].transactions = transactions]
    /\ blockDigests' = IF SameContent(blocks'[i], blocks[i]) THEN blockDigests
                       ELSE [blockDigests EXCEPT ![i] = <<>>]
    /\ UNCHANGED <<earlierVars, genesisVars, workerVars>>

\* digest() is taken of block i
TakeDigest(i) ==
    /\ blockDigests' = [blockDigests EXCEPT ![i] = <<WorkerBlockDigest(blocks[i])>>]
    /\ UNCHANGED blocks
    /\ UNCHANGED <<earlierVars, genesisVars, workerVars>>

BlockNext ==
    \/ \E i \in 1..2, time \in BlockTimes : SetReceivedAt(i, time)
    \/ \E i \in 1..2 : TakeDigest(i)
    \/ \E i \in 1..2, sealed_header \in BlockSealedHeaders :
            UpdateHeaderForTest(i, sealed_header)
    \/ \E i \in 1..2, transactions \in BlockTransactions : TransactionsMut(i, transactions)

BlockSpec == BlockInit /\ [][BlockNext]_vars

(* ---------------------------- genesis validation ------------------------ *)
\* the BLS keys of the validators and the chain specs a proof can be over
GenesisKeys == {1, 2}
GenesisChains == {"yukon", "other"}

\* generate_proof_of_possession: the signature of a keypair over the
\* intent-tagged hash of a chain spec
GenerateProofOfPossession(keypair, chain) == [signer |-> keypair, chain |-> chain]

\* verify_proof_of_possession: the signature verifies under the public key
\* against the chain spec
VerifyProofOfPossession(proof, pubkey, chain) ==
    proof.signer = pubkey /\ proof.chain = chain

RECURSIVE ValidateFrom(_, _)
\* the loop of validate over the validators still to verify, in key order;
\* the first proof that does not verify ends it with the error
ValidateFrom(g, todo) ==
    IF todo = {} THEN "ok"
    ELSE LET pubkey == MinOf(todo) IN
         IF VerifyProofOfPossession(g.validators[pubkey].proof_of_possession,
                                    pubkey, g.chain)
         THEN ValidateFrom(g, todo \ {pubkey})
         ELSE "err"

\* only the first listed validator is verified
ValidateFirst(g) ==
    IF DOMAIN g.validators = {} THEN "ok"
    ELSE LET pubkey == MinOf(DOMAIN g.validators) IN
         IF VerifyProofOfPossession(g.validators[pubkey].proof_of_possession,
                                    pubkey, g.chain)
         THEN "ok" ELSE "err"

\* NetworkGenesis::validate, genesis.rs lines 273-280
Validate(g) == ValidateFrom(g, DOMAIN g.validators)

\* NetworkGenesis::new()
GenesisInit ==
    /\ EarlierIdle
    /\ BlockIdle
    /\ GenesisIdle
    /\ WorkerIdle

\* add_validator, genesis.rs lines 125-127: a validator with its public key
\* and a proof made by some keypair over some chain spec
AddValidator(pubkey, keypair, chain) ==
    /\ genesis' = [genesis EXCEPT !.validators =
            [k \in (DOMAIN genesis.validators) \cup {pubkey} |->
                IF k = pubkey
                THEN [bls_public_key |-> pubkey,
                      proof_of_possession |-> GenerateProofOfPossession(keypair, chain)]
                ELSE genesis.validators[k]]]
    /\ UNCHANGED validated
    /\ UNCHANGED <<earlierVars, blockVars, workerVars>>

\* network_genesis.validate()
ValidateStep ==
    /\ validated' = <<[genesis |-> genesis, result |-> Validate(genesis)]>>
    /\ UNCHANGED genesis
    /\ UNCHANGED <<earlierVars, blockVars, workerVars>>

GenesisNext ==
    \/ \E pubkey \in GenesisKeys, keypair \in GenesisKeys, chain \in GenesisChains :
            AddValidator(pubkey, keypair, chain)
    \/ ValidateStep

GenesisSpec == GenesisInit /\ [][GenesisNext]_vars

(* --------------------- the worker's request handlers -------------------- *)
\* the payloads a batch is made of here, and any list of them
WorkerPayloads == {1, 2}

\* the handler's authority and worker id, and the authority asked for batches
Worker == [authority_id |-> 1, id |-> 0]
TargetAuthority == 2

\* a batch of the given payload and its digest
Batch(payload) == [transactions |-> payload]
BatchDigest(batch) == <<"digest", batch.transactions>>

\* the store with a batch put under its digest
StoreInsert(store_, batch) ==
    [d \in (DOMAIN store_) \cup {BatchDigest(batch)} |->
        IF d = BatchDigest(batch) THEN batch ELSE store_[d]]

\* the batch is stored only once the quorum waiter has acknowledged it
SealBatchAfterQuorum(store_, payload, ack) ==
    LET batch == Batch(payload) IN
    [store    |-> IF ack THEN StoreInsert(store_, batch) ELSE store_,
     result   |-> IF ack THEN "ok" ELSE "err",
     response |-> IF ack
                  THEN <<[batch |-> batch, digest |-> BatchDigest(batch),
                          worker_id |-> Worker.id]>>
                  ELSE <<>>]

\* EngineToWorkerHandler::seal_batch: the batch of the payload goes to the
\* quorum waiter, is stored locally whatever the quorum waiter answers, and
\* is returned with its digest and the worker's id
SealBatch(store_, payload, ack) ==
    LET batch == Batch(payload) IN
    [store    |-> StoreInsert(store_, batch),
     result   |-> IF ack THEN "ok" ELSE "err",
     response |-> IF ack
                  THEN <<[batch |-> batch, digest |-> BatchDigest(batch),
                          worker_id |-> Worker.id]>>
                  ELSE <<>>]

RECURSIVE StoreInsertAll(_, _)
\* the store with every batch of a set put under its digest
StoreInsertAll(store_, batches) ==
    IF batches = {} THEN store_
    ELSE LET b == CHOOSE x \in batches : TRUE
         IN  StoreInsertAll(StoreInsert(store_, b), batches \ {b})

\* the handler answers Ok once the request to the peer has been answered
SynchronizeOptimistic(store_, peer, wanted, target) ==
    LET missing  == {d \in wanted : d \notin DOMAIN store_}
        fetched == {b \in peer : BatchDigest(b) \in missing}
    IN  IF missing = {}
        THEN [store |-> store_, requests |-> {}, result |-> "ok"]
        ELSE [store    |-> StoreInsertAll(store_, fetched),
              requests |-> {[to |-> target, batch_digests |-> missing]},
              result   |-> "ok"]

\* PrimaryToWorkerHandler::synchronize: the digests that the store lacks are
\* requested from the target authority's worker, the batches it returns are
\* stored, and the handler succeeds when nothing is missing any more
Synchronize(store_, peer, wanted, target) ==
    LET missing  == {d \in wanted : d \notin DOMAIN store_}
        fetched == {b \in peer : BatchDigest(b) \in missing}
    IN  IF missing = {}
        THEN [store |-> store_, requests |-> {}, result |-> "ok"]
        ELSE [store    |-> StoreInsertAll(store_, fetched),
              requests |-> {[to |-> target, batch_digests |-> missing]},
              result   |-> IF \A d \in missing : \E b \in fetched : BatchDigest(b) = d
                           THEN "ok" ELSE "err"]

\* empty local store; the other worker holds any batches
WorkerInit ==
    /\ EarlierIdle
    /\ BlockIdle
    /\ GenesisIdle
    /\ batchStore = <<>>
    /\ peerBatches \in SUBSET {Batch(p) : p \in WorkerPayloads}
    /\ sealed = <<>>
    /\ synced = <<>>

\* handler.seal_batch(request)
SealBatchStep(payload, ack) ==
    /\ LET r == SealBatch(batchStore, payload, ack)
       IN  /\ batchStore' = r.store
           /\ sealed' = <<[payload |-> payload, before |-> batchStore,
                           result |-> r.result, response |-> r.response]>>
    /\ UNCHANGED <<peerBatches, synced>>
    /\ UNCHANGED <<earlierVars, blockVars, genesisVars>>

\* handler.synchronize(request)
SynchronizeStep(wanted) ==
    /\ LET r == Synchronize(batchStore, peerBatches, wanted, TargetAuthority)
       IN  /\ batchStore' = r.store
           /\ synced' = <<[digests |-> wanted, before |-> batchStore,
                           requests |-> r.requests, result |-> r.result]>>
    /\ UNCHANGED <<peerBatches, sealed>>
    /\ UNCHANGED <<earlierVars, blockVars, genesisVars>>

WorkerNext ==
    \/ \E payload \in WorkerPayloads, ack \in BOOLEAN : SealBatchStep(payload, ack)
    \/ \E D \in SUBSET {BatchDigest(Batch(p)) : p \in WorkerPayloads} : SynchronizeStep(D)

WorkerSpec == WorkerInit /\ [][WorkerNext]_vars

(* -------------------- the parents branch, message in hand --------------- *)
\* the size of the largest Vec<Certificate> put on rx_parents here
MaxParents == 2

\* the authorities whose certificates are sent here: the leaders of the rounds
ParentsAuthors == {Leader(r) : r \in Rounds}

\* the vectors of certificates of round r that rx_parents can carry: up to
\* MaxParents certificates in any order, the same one more than once too.
\* At an odd round the certificate of the previous round's leader is the one
\* that refers to it
ParentsOfRound(r) ==
    UNION {[1..n -> {c \in CertsOfRound(r) :
                        /\ c.origin \in ParentsAuthors
                        /\ c.vote = (r % 2 = 1 /\ c.origin = Leader(r - 1))}] :
              n \in 1..MaxParents}

\* what the core can put on rx_parents: certificates of one round, their
\* round, and the epoch of the core
ParentsInputs ==
    UNION {{[certs |-> S, round |-> r, epoch |-> e] :
              S \in ParentsOfRound(r), e \in {CommitteeEpoch, CommitteeEpoch + 1}} :
           r \in Rounds}

\* the core sends a message: it is what rx_parents.recv() yields next
ParentsArrive(m) ==
    /\ pc = "select"
    /\ m # parentsInput
    /\ parentsInput' = m
    /\ UNCHANGED <<proposerVars, timeVars, commitVars, outputVars, fetchVars>>
    /\ UNCHANGED <<blockVars, genesisVars, workerVars, digestVars, restVars,
                   headersVars>>

\* the select takes the message of the channel, whatever it holds: line 705
\* does not look whether a certificate is pending already
ParentsRecv ==
    /\ parentsInput.certs # <<>>
    /\ parentsInput.round = round =>
          Len(lastParents) + Len(parentsInput.certs) <= MaxPending
    /\ Parents(parentsInput)

\* a proposer whose rounds advance by the max timer and by the parents it is
\* sent
ParentsNext ==
    \/ GateWait
    \/ GateBuild
    \/ GateBuildSleep
    \/ SleepOver
    \/ OurDigest
    \/ MaxTimer
    \/ MinTimer
    \/ \E m \in ParentsInputs : ParentsArrive(m)
    \/ ParentsRecv

ParentsSpec == Init /\ [][ParentsNext]_vars

(* -------------------- the digests branch, message in hand --------------- *)
\* a worker sends an OurDigestMessage, with or without an ack channel: it is
\* what rx_our_digests.recv() yields next
DigestArrive(withAck) ==
    /\ digestInput = <<>>
    /\ arrived < MaxDigests
    /\ arrived' = arrived + 1
    /\ digestInput' = <<[digest |-> arrived + 1,
                         ack_channel |-> IF withAck THEN <<arrived + 1>> ELSE <<>>]>>
    /\ acks' = acks
    /\ UNCHANGED <<proposerVars, timeVars, commitVars, outputVars, fetchVars>>
    /\ UNCHANGED <<blockVars, genesisVars, workerVars, parentsVars, restVars,
                   headersVars>>

\* rx_our_digests, lines 736-745: ack_channel.take().unwrap() panics on None,
\* otherwise a () goes out on the channel and the message joins the queue
DigestRecv ==
    /\ pc = "select"
    /\ digestInput # <<>>
    /\ digestInput' = <<>>
    /\ arrived' = arrived
    /\ nextHeader' = NoNext
    /\ quiet' = FALSE
    /\ IF digestInput[1].ack_channel = <<>>
       THEN /\ pc' = "panicked"
            /\ ev' = "digest_panic"
            /\ UNCHANGED <<acks, digests, received>>
       ELSE /\ acks' = Append(acks, digestInput[1].ack_channel[1])
            /\ digests' = Append(digests, digestInput[1].digest)
            /\ received' = received + 1
            /\ pc' = "gate"
            /\ ev' = "digest"
    /\ UNCHANGED <<round, lastParents, lastLeader, proposedHeaders, store,
                   optLatestHeader, advance, maxElapsed, minElapsed, sent,
                   firstDigest, committed, restarted, remaining>>
    /\ UNCHANGED <<timeVars, commitVars, outputVars, fetchVars>>
    /\ UNCHANGED <<blockVars, genesisVars, workerVars, parentsVars, restVars,
                   headersVars>>

\* a proposer that takes digests and proposes them
DigestNext ==
    \/ GateWait
    \/ GateBuild
    \/ BuildOk
    \/ ProcessHeaderPersist
    \/ ProcessHeaderSend
    \/ MaxTimer
    \/ MinTimer
    \/ \E withAck \in BOOLEAN : DigestArrive(withAck)
    \/ DigestRecv

DigestSpec == Init /\ [][DigestNext]_vars

(* --------------------------- the state handler -------------------------- *)
\* how many commits consensus makes here, and how many certificates each holds
MaxCommits == 2
MaxCommitCerts == 2

\* the certificates consensus commits, as handle_sequenced reads them:
\* header().author() and header().round()
SequencedCerts == [origin : {1, Me}, round : 1..2]

\* what consensus sends on committed_certificates: (Round, Vec<Certificate>)
SequencedMsgs ==
    [commit_round : {2, 4},
     certificates : UNION {[1..n -> SequencedCerts] : n \in 0..MaxCommitCerts}]

RECURSIVE OwnRoundsCommittedAll(_, _)
\* the rounds of all the certificates, whoever wrote them
OwnRoundsCommittedAll(certificates, authority_id) ==
    IF certificates = <<>> THEN <<>>
    ELSE <<Head(certificates).round>>
            \o OwnRoundsCommittedAll(Tail(certificates), authority_id)

RECURSIVE OwnRoundsCommitted(_, _)
\* handle_sequenced, lines 49-58: own_rounds_committed
OwnRoundsCommitted(certificates, authority_id) ==
    IF certificates = <<>> THEN <<>>
    ELSE (IF Head(certificates).origin = authority_id
          THEN <<Head(certificates).round>> ELSE <<>>)
            \o OwnRoundsCommitted(Tail(certificates), authority_id)

\* what the state handler has no hand in
stateFrame == <<miningVars, nodeVars, startVars, dialVars, coverVars>>
StateRestIdle ==
    /\ MiningIdle
    /\ NodeIdle
    /\ StartIdle
    /\ DialIdle
    /\ CoverIdle

\* how many messages the channel of committed_own_headers holds
OwnCapacity == 1

\* the channel has room for a message
OwnRoom == Len(ownHeaders) - ownTaken < OwnCapacity

\* consensus commits and sends the certificates to the state handler
Sequence(msg) ==
    /\ Len(sequenced) < MaxCommits
    /\ sequenced' = Append(sequenced, msg)
    /\ UNCHANGED <<handled, sendCalls, ownHeaders, ownTaken, rxOwnOpen, handlerPc>>
    /\ UNCHANGED <<priorVars, stateFrame>>

\* run, lines 82-84, and handle_sequenced, lines 47-71: the message is taken,
\* the rounds are computed and send is called. A send on a channel whose
\* receiver is gone fails and the failure is logged; a send on a channel with
\* room is taken at once; on a full channel the task waits in the send,
\* outside of the select
HandleSequenced ==
    /\ handlerPc = "running"
    /\ handled < Len(sequenced)
    /\ LET msg  == sequenced[handled + 1]
           note == [commit_round |-> msg.commit_round,
                    rounds |-> OwnRoundsCommitted(msg.certificates, Me)]
       IN  /\ sendCalls' = Append(sendCalls, note)
           /\ ownHeaders' = IF rxOwnOpen /\ OwnRoom THEN Append(ownHeaders, note)
                            ELSE ownHeaders
    /\ handlerPc' = IF rxOwnOpen /\ ~OwnRoom THEN "sending" ELSE "running"
    /\ handled' = handled + 1
    /\ UNCHANGED <<sequenced, ownTaken, rxOwnOpen>>
    /\ UNCHANGED <<priorVars, stateFrame>>

\* handle_sequenced, lines 62-70: the send that waited ends, taken by the
\* channel once it has room, failed once the receiver is gone
SendResumes ==
    /\ handlerPc = "sending"
    /\ ~rxOwnOpen \/ OwnRoom
    /\ ownHeaders' = IF rxOwnOpen THEN Append(ownHeaders, sendCalls[Len(sendCalls)])
                     ELSE ownHeaders
    /\ handlerPc' = "running"
    /\ UNCHANGED <<sequenced, handled, sendCalls, ownTaken, rxOwnOpen>>
    /\ UNCHANGED <<priorVars, stateFrame>>

\* the proposer takes a message out of the channel
OwnReceiverTakes ==
    /\ rxOwnOpen
    /\ ownTaken < Len(ownHeaders)
    /\ ownTaken' = ownTaken + 1
    /\ UNCHANGED <<sequenced, handled, sendCalls, ownHeaders, rxOwnOpen, handlerPc>>
    /\ UNCHANGED <<priorVars, stateFrame>>

\* run, lines 86-95: the shutdown notice ends the task; it is not seen while
\* a send waits
StateShutdown ==
    /\ handlerPc = "running"
    /\ handlerPc' = "stopped"
    /\ UNCHANGED <<sequenced, handled, sendCalls, ownHeaders, ownTaken, rxOwnOpen>>
    /\ UNCHANGED <<priorVars, stateFrame>>

\* the receiver of committed_own_headers is dropped
OwnReceiverDropped ==
    /\ rxOwnOpen
    /\ rxOwnOpen' = FALSE
    /\ UNCHANGED <<sequenced, handled, sendCalls, ownHeaders, ownTaken, handlerPc>>
    /\ UNCHANGED <<priorVars, stateFrame>>

StateInit ==
    /\ PriorIdle
    /\ StateIdle
    /\ StateRestIdle

StateNext ==
    \/ \E msg \in SequencedMsgs : Sequence(msg)
    \/ HandleSequenced
    \/ SendResumes
    \/ OwnReceiverTakes
    \/ StateShutdown
    \/ OwnReceiverDropped

StateSpec == StateInit /\ [][StateNext]_vars

(* ------------------- the mining task of the block proposer -------------- *)
\* how many transactions reach the pool and how many sets the miner returns
MaxTxs == 2
MaxDeliveries == 3
\* how many receivers the watch channel has at most
MaxWatchReceivers == 2

\* what can happen to an insert future: the block is built and sealed, the
\* build fails, or seal returns one of the errors of QuorumWaiterError
InsertOutcomes ==
    {"sealed", "build_failed", "Timeout", "AntiQuorum", "QuorumRejected", "Network", "Rpc"}

\* the insert future emptying the pool whatever comes of the block
InsertFutureRemovesAlways(transactions, outcome) ==
    [result  |-> IF outcome = "sealed" THEN "Ok"
                 ELSE IF outcome = "build_failed" THEN "Timeout" ELSE outcome,
     publish |-> outcome = "sealed",
     remove  |-> transactions]

\* the insert future, lines 125-182: its result, whether it sends the new
\* pending state and the transactions it removes from the pool
InsertFuture(transactions, outcome) ==
    [result  |-> IF outcome = "sealed" THEN "Ok"
                 ELSE IF outcome = "build_failed" THEN "Timeout" ELSE outcome,
     publish |-> outcome = "sealed",
     remove  |-> IF outcome = "sealed" THEN transactions ELSE {}]

\* what the mining task has no hand in
miningFrame == <<stateVars, nodeVars, startVars, dialVars, coverVars>>
MiningRestIdle ==
    /\ StateIdle
    /\ NodeIdle
    /\ StartIdle
    /\ DialIdle
    /\ CoverIdle

\* a transaction enters the pool
SubmitTx ==
    /\ submitted < MaxTxs
    /\ submitted' = submitted + 1
    /\ pool' = pool \cup {submitted + 1}
    /\ UNCHANGED <<minePc, queued, insertTask, watchTx, watchRx, delivered, started,
                   completed>>
    /\ UNCHANGED <<priorVars, miningFrame>>

\* poll, lines 102-105: the miner returns a set of transactions of the pool
MinerReady(transactions) ==
    /\ minePc = "miner"
    /\ Len(delivered) < MaxDeliveries
    /\ queued' = Append(queued, transactions)
    /\ delivered' = Append(delivered, transactions)
    /\ minePc' = "start"
    /\ UNCHANGED <<pool, submitted, insertTask, watchTx, watchRx, started, completed>>
    /\ UNCHANGED <<priorVars, miningFrame>>

\* poll, line 102: the miner has nothing
MinerPending ==
    /\ minePc = "miner"
    /\ minePc' = "start"
    /\ UNCHANGED <<pool, submitted, queued, insertTask, watchTx, watchRx, delivered, started,
                   completed>>
    /\ UNCHANGED <<priorVars, miningFrame>>

\* an insert future is created for the head of the queue although one may be
\* in flight
StartInsertAlways ==
    /\ minePc = "start"
    /\ IF queued = <<>>
       THEN /\ minePc' = IF insertTask = <<>> THEN "parked" ELSE "task"
            /\ UNCHANGED <<queued, insertTask, started>>
       ELSE /\ insertTask' = <<Head(queued)>>
            /\ queued' = Tail(queued)
            /\ started' = Append(started, Head(queued))
            /\ minePc' = "task"
    /\ UNCHANGED <<pool, submitted, watchTx, watchRx, delivered, completed>>
    /\ UNCHANGED <<priorVars, miningFrame>>

\* poll, lines 107-183: with no insert future, the head of the queue gets one,
\* and an empty queue ends the poll
StartInsert ==
    /\ minePc = "start"
    /\ IF insertTask # <<>>
       THEN /\ minePc' = "task"
            /\ UNCHANGED <<queued, insertTask, started>>
       ELSE IF queued = <<>>
       THEN /\ minePc' = "parked"
            /\ UNCHANGED <<queued, insertTask, started>>
       ELSE /\ insertTask' = <<Head(queued)>>
            /\ queued' = Tail(queued)
            /\ started' = Append(started, Head(queued))
            /\ minePc' = "task"
    /\ UNCHANGED <<pool, submitted, watchTx, watchRx, delivered, completed>>
    /\ UNCHANGED <<priorVars, miningFrame>>

\* poll, lines 185-202: the future is ready, its error, if any, is dropped and
\* the loop goes round
InsertReady(outcome) ==
    /\ minePc = "task"
    /\ insertTask # <<>>
    /\ LET fut == InsertFuture(insertTask[1], outcome)
       IN  /\ pool' = pool \ fut.remove
           /\ watchTx' = IF fut.publish /\ watchRx > 0 THEN <<insertTask[1]>>
                         ELSE watchTx
           /\ completed' = Append(completed, [transactions |-> insertTask[1],
                                              outcome |-> outcome,
                                              result |-> fut.result])
    /\ insertTask' = <<>>
    /\ minePc' = "miner"
    /\ UNCHANGED <<submitted, queued, watchRx, delivered, started>>
    /\ UNCHANGED <<priorVars, miningFrame>>

\* poll, lines 203-206: the future is not ready, it is put back and the poll
\* ends
InsertPending ==
    /\ minePc = "task"
    /\ insertTask # <<>>
    /\ minePc' = "parked"
    /\ UNCHANGED <<pool, submitted, queued, insertTask, watchTx, watchRx, delivered, started,
                   completed>>
    /\ UNCHANGED <<priorVars, miningFrame>>

\* the task is polled again
MiningWake ==
    /\ minePc = "parked"
    /\ minePc' = "miner"
    /\ UNCHANGED <<pool, submitted, queued, insertTask, watchTx, watchRx, delivered, started,
                   completed>>
    /\ UNCHANGED <<priorVars, miningFrame>>

\* watch_tx, line 47: the task keeps the sender only; the receivers are with
\* the caller of MiningTask::new, which drops them or takes new ones
WatchReceivers(n) ==
    /\ n # watchRx
    /\ watchRx' = n
    /\ UNCHANGED <<minePc, pool, submitted, queued, insertTask, watchTx, delivered,
                   started, completed>>
    /\ UNCHANGED <<priorVars, miningFrame>>

MiningInit ==
    /\ PriorIdle
    /\ MiningIdle
    /\ MiningRestIdle

MiningNext ==
    \/ SubmitTx
    \/ \E transactions \in (SUBSET pool) \ {{}} : MinerReady(transactions)
    \/ MinerPending
    \/ StartInsert
    \/ \E outcome \in InsertOutcomes : InsertReady(outcome)
    \/ InsertPending
    \/ MiningWake
    \/ \E n \in 0..MaxWatchReceivers : WatchReceivers(n)

MiningSpec == MiningInit /\ [][MiningNext]_vars

(* ------------------------------ the primary node ------------------------ *)
\* how many handles a start keeps, and how many calls are made
NodeTasks == 2
MaxCalls == 4

\* is_running, primary.rs lines 139-141: some handle has not finished
IsRunning(hs) == \E i \in 1..Len(hs) : hs[i] = "running"

\* how a start of a node that is not running can end: the tasks are spawned
\* and the engine starts ("ok"); last_executed_output returns Err and the
\* expect of line 85 panics ("no_head"); get_restored_consensus_output returns
\* Err before anything is spawned (lines 243-248, "restore_failed");
\* Executor::spawn returns Err after Consensus::spawn has spawned its task
\* (lines 273-292, "spawn_failed"); start_engine returns Err after
\* spawn_primary has spawned every task (line 95, "engine_failed")
StartOutcomes == {"ok", "no_head", "restore_failed", "spawn_failed", "engine_failed"}

\* what the primary node has no hand in
nodeFrame == <<stateVars, miningVars, startVars, dialVars, coverVars>>
NodeRestIdle ==
    /\ StateIdle
    /\ MiningIdle
    /\ StartIdle
    /\ DialIdle
    /\ CoverIdle

\* start going on whether or not handles are running
StartUnchecked(outcome) ==
    /\ nodePc = "idle"
    /\ calls < MaxCalls
    /\ calls' = calls + 1
    /\ IF outcome = "ok"
       THEN /\ handles' = [i \in 1..NodeTasks |-> "running"]
            /\ txShutdown' = <<calls + 1>>
            /\ noticed' = FALSE
            /\ orphans' = orphans
            /\ lastCall' = [op |-> "start", result |-> "Ok"]
            /\ nodePc' = nodePc
            /\ joined' = FALSE
       ELSE IF outcome = "no_head"
       THEN /\ nodePc' = "panicked"
            /\ lastCall' = [op |-> "start", result |-> "panic"]
            /\ UNCHANGED <<handles, txShutdown, noticed, orphans, joined>>
       ELSE /\ orphans' = orphans + (IF outcome = "engine_failed" THEN NodeTasks
                                     ELSE IF outcome = "spawn_failed" THEN 1
                                     ELSE 0)
            /\ lastCall' = [op |-> "start", result |-> outcome]
            /\ UNCHANGED <<handles, txShutdown, noticed, nodePc, joined>>
    /\ notices' = notices
    /\ UNCHANGED <<priorVars, nodeFrame>>

\* PrimaryNodeInner::start, primary.rs lines 62-103. A start that fails
\* after it has spawned tasks returns without their handles: the consensus task
\* alone when Executor::spawn fails, every task when start_engine fails
Start(outcome) ==
    /\ nodePc = "idle"
    /\ calls < MaxCalls
    /\ calls' = calls + 1
    /\ IF IsRunning(handles)
       THEN /\ lastCall' = [op |-> "start", result |-> "NodeAlreadyRunning"]
            /\ UNCHANGED <<handles, txShutdown, noticed, orphans, nodePc, joined>>
       ELSE IF outcome = "ok"
       THEN /\ handles' = [i \in 1..NodeTasks |-> "running"]
            /\ txShutdown' = <<calls + 1>>
            /\ noticed' = FALSE
            /\ orphans' = orphans
            /\ lastCall' = [op |-> "start", result |-> "Ok"]
            /\ nodePc' = nodePc
            /\ joined' = FALSE
       ELSE IF outcome = "no_head"
       THEN /\ nodePc' = "panicked"
            /\ lastCall' = [op |-> "start", result |-> "panic"]
            /\ UNCHANGED <<handles, txShutdown, noticed, orphans, joined>>
       ELSE /\ orphans' = orphans + (IF outcome = "engine_failed" THEN NodeTasks
                                     ELSE IF outcome = "spawn_failed" THEN 1
                                     ELSE 0)
            /\ lastCall' = [op |-> "start", result |-> outcome]
            /\ UNCHANGED <<handles, txShutdown, noticed, nodePc, joined>>
    /\ notices' = notices
    /\ UNCHANGED <<priorVars, nodeFrame>>

\* PrimaryNodeInner::shutdown, primary.rs lines 109-122: up to the await of
\* the handles
NodeShutdown ==
    /\ nodePc = "idle"
    /\ calls < MaxCalls
    /\ calls' = calls + 1
    /\ IF ~IsRunning(handles)
       THEN /\ lastCall' = [op |-> "shutdown", result |-> "returned"]
            /\ UNCHANGED <<nodePc, txShutdown, noticed, notices>>
       ELSE /\ notices' = IF txShutdown # <<>> THEN Append(notices, txShutdown[1])
                          ELSE notices
            /\ noticed' = (noticed \/ txShutdown # <<>>)
            /\ txShutdown' = <<>>
            /\ nodePc' = "joining"
            /\ lastCall' = [op |-> "shutdown", result |-> "pending"]
    /\ UNCHANGED <<handles, orphans, joined>>
    /\ UNCHANGED <<priorVars, nodeFrame>>

\* PrimaryNodeInner::shutdown, primary.rs line 124:
\* try_join_all(&mut self.handles).await.unwrap() ends with the first handle
\* that yields an error, and unwrap panics on it
NodeShutdownJoin ==
    /\ nodePc = "joining"
    /\ IF \E i \in 1..Len(handles) : handles[i] = "panicked"
       THEN /\ nodePc' = "panicked"
            /\ lastCall' = [op |-> "shutdown", result |-> "panic"]
            /\ joined' = joined
       ELSE /\ ~IsRunning(handles)
            /\ nodePc' = "idle"
            /\ lastCall' = [op |-> "shutdown", result |-> "returned"]
            /\ joined' = TRUE
    /\ UNCHANGED <<handles, txShutdown, noticed, notices, orphans, calls>>
    /\ UNCHANGED <<priorVars, nodeFrame>>

\* PrimaryNodeInner::wait, primary.rs lines 133-135, called by
\* PrimaryNode::wait (lines 359-362) under the write lock: up to the await of
\* the handles; nothing is sent to the tasks
NodeWait ==
    /\ nodePc = "idle"
    /\ calls < MaxCalls
    /\ calls' = calls + 1
    /\ nodePc' = "waiting"
    /\ lastCall' = [op |-> "wait", result |-> "pending"]
    /\ UNCHANGED <<handles, txShutdown, noticed, notices, orphans, joined>>
    /\ UNCHANGED <<priorVars, nodeFrame>>

\* PrimaryNodeInner::wait, primary.rs line 134:
\* try_join_all(&mut self.handles).await.unwrap() returns once every handle
\* has finished and panics on a handle whose task panicked; a JoinHandle that
\* an earlier join has awaited to its end panics when it is polled again
NodeWaitJoin ==
    /\ nodePc = "waiting"
    /\ IF \/ handles # <<>> /\ joined
          \/ \E i \in 1..Len(handles) : handles[i] = "panicked"
       THEN /\ nodePc' = "panicked"
            /\ lastCall' = [op |-> "wait", result |-> "panic"]
            /\ joined' = joined
       ELSE /\ ~IsRunning(handles)
            /\ nodePc' = "idle"
            /\ lastCall' = [op |-> "wait", result |-> "returned"]
            /\ joined' = (handles # <<>>)
    /\ UNCHANGED <<handles, txShutdown, noticed, notices, orphans, calls>>
    /\ UNCHANGED <<priorVars, nodeFrame>>

\* a task that has been sent the notice returns
TaskStops(i) ==
    /\ i \in 1..Len(handles)
    /\ handles[i] = "running"
    /\ noticed
    /\ handles' = [handles EXCEPT ![i] = "finished"]
    /\ UNCHANGED <<nodePc, txShutdown, noticed, notices, orphans, calls, lastCall, joined>>
    /\ UNCHANGED <<priorVars, nodeFrame>>

\* a task panics, as the proposer does on a failed read, build or write
TaskPanics(i) ==
    /\ i \in 1..Len(handles)
    /\ handles[i] = "running"
    /\ handles' = [handles EXCEPT ![i] = "panicked"]
    /\ UNCHANGED <<nodePc, txShutdown, noticed, notices, orphans, calls, lastCall, joined>>
    /\ UNCHANGED <<priorVars, nodeFrame>>

NodeInit ==
    /\ PriorIdle
    /\ NodeIdle
    /\ NodeRestIdle

NodeNext ==
    \/ \E outcome \in StartOutcomes : Start(outcome)
    \/ NodeShutdown
    \/ NodeShutdownJoin
    \/ NodeWait
    \/ NodeWaitJoin
    \/ \E i \in 1..NodeTasks : TaskStops(i)
    \/ \E i \in 1..NodeTasks : TaskPanics(i)

NodeSpec == NodeInit /\ [][NodeNext]_vars

(* ------------- the broadcast of ConsensusOutput at start-up ------------- *)
\* how many outputs are broadcast and how many the channel keeps for a
\* receiver that is behind
MaxOutputs == 5
BroadcastCapacity == 2

\* PrimaryNodeInner::start, primary.rs lines 88-95: the receiver is made, the
\* primary is spawned, start_engine is called with the receiver and awaited.
\* start_engine (engine/inner.rs lines 177-346) never reads from_consensus:
\* the Executor that would take it is commented out (lines 230-239), and the
\* receiver is dropped when start_engine returns
StartOrder == <<"subscribe", "spawn_primary", "start_engine", "engine_returns">>

\* the steps of start taken so far
StartDone == {StartOrder[i] : i \in 1..startStep}

\* what the start-up has no hand in
startFrame == <<stateVars, miningVars, nodeVars, dialVars, coverVars>>
StartRestIdle ==
    /\ StateIdle
    /\ MiningIdle
    /\ NodeIdle
    /\ DialIdle
    /\ CoverIdle

\* start takes its next step; a receiver made now sees what is broadcast from
\* now on; the executor spawned now first sends what it restored, r outputs;
\* the receiver moved into start_engine is gone when that call returns
StartStep(r) ==
    /\ startStep < Len(StartOrder)
    /\ startStep' = startStep + 1
    /\ consensusOutputRx' = IF StartOrder[startStep + 1] = "subscribe"
                            THEN <<Len(broadcastLog)>>
                            ELSE IF StartOrder[startStep + 1] = "engine_returns"
                            THEN <<>>
                            ELSE consensusOutputRx
    /\ nRestored' = IF StartOrder[startStep + 1] = "spawn_primary" THEN r ELSE nRestored
    /\ UNCHANGED broadcastLog
    /\ UNCHANGED <<priorVars, startFrame>>

\* the executor broadcasts its next output: the restored ones, then the new
\* ones, by ascending sub_dag_index
BroadcastOutput ==
    /\ "spawn_primary" \in StartDone
    /\ Len(broadcastLog) < MaxOutputs
    /\ broadcastLog' = Append(broadcastLog, Len(broadcastLog) + 1)
    /\ UNCHANGED <<startStep, consensusOutputRx, nRestored>>
    /\ UNCHANGED <<priorVars, startFrame>>

StartInit ==
    /\ PriorIdle
    /\ StartIdle
    /\ StartRestIdle

StartNext ==
    \/ \E r \in 0..MaxOutputs : StartStep(r)
    \/ BroadcastOutput

StartSpec == StartInit /\ [][StartNext]_vars

(* ------------------------- the dial of the peers ------------------------- *)
\* how many dials of one peer fail
MaxDialFailures == 9

\* the wait doubles after every failure
NextBackoffDoubling(b) == b + b

\* dial_primary, lib.rs lines 70-72, and dial_worker, lines 90-92: the wait
\* doubles while it is below 120 seconds
NextBackoff(b) == IF b < 120 THEN b + b ELSE b

\* what the dial tasks have no hand in
dialFrame == <<stateVars, miningVars, nodeVars, startVars, coverVars>>
DialRestIdle ==
    /\ StateIdle
    /\ MiningIdle
    /\ NodeIdle
    /\ StartIdle
    /\ CoverIdle

\* launch_node_inner calls dial_primary or dial_worker once for the peer: the
\* task is spawned with backoff 1 and dials
DialSpawn(p) ==
    /\ dialPc[p] = "idle"
    /\ dialPc' = [dialPc EXCEPT ![p] = "dialing"]
    /\ backoff' = [backoff EXCEPT ![p] = 1]
    /\ UNCHANGED <<waits, connectedCount>>
    /\ UNCHANGED <<priorVars, dialFrame>>

\* handle.dial returns Err: the task warns and goes to sleep for backoff seconds
DialFail(p) ==
    /\ dialPc[p] = "dialing"
    /\ Len(waits[p]) < MaxDialFailures
    /\ dialPc' = [dialPc EXCEPT ![p] = "sleeping"]
    /\ waits' = [waits EXCEPT ![p] = Append(@, backoff[p])]
    /\ UNCHANGED <<backoff, connectedCount>>
    /\ UNCHANGED <<priorVars, dialFrame>>

\* the sleep is over: the wait is updated and the peer is dialled again
DialRetry(p) ==
    /\ dialPc[p] = "sleeping"
    /\ dialPc' = [dialPc EXCEPT ![p] = "dialing"]
    /\ backoff' = [backoff EXCEPT ![p] = NextBackoff(@)]
    /\ UNCHANGED <<waits, connectedCount>>
    /\ UNCHANGED <<priorVars, dialFrame>>

\* handle.dial returns Ok: the loop ends, the counter is incremented and the
\* task finishes
DialOk(p) ==
    /\ dialPc[p] = "dialing"
    /\ dialPc' = [dialPc EXCEPT ![p] = "connected"]
    /\ connectedCount' = connectedCount + 1
    /\ UNCHANGED <<backoff, waits>>
    /\ UNCHANGED <<priorVars, dialFrame>>

DialInit ==
    /\ PriorIdle
    /\ DialIdle
    /\ DialRestIdle

DialNext ==
    \E p \in DialPeers :
        \/ DialSpawn(p)
        \/ DialFail(p)
        \/ DialRetry(p)
        \/ DialOk(p)

DialSpec == DialInit /\ [][DialNext]_vars

(* --------------------- the digest of a ConsensusOutput --------------------- *)
\* the bytes of a digest and of an address, and the longest queue of block
\* digests
DigestLength == 2
AddressLength == 1
MaxBlockDigests == 2

CoverBytes == {0, 1}
CoverHashes == [1..DigestLength -> CoverBytes]
CoverAddresses == [1..AddressLength -> CoverBytes]
CoverSubDagDigests == {<<0, 1>>, <<1, 0>>}
CoverBlocks == {<<>>, <<<<1>>>>, <<<<1>>, <<2>>>>}

\* the outputs: any sub-DAG digest, beneficiary, queue of block digests and
\* hydrated blocks
CoverOutputs ==
    [sub_dag_digest : CoverSubDagDigests,
     blocks : CoverBlocks,
     beneficiary : CoverAddresses,
     block_digests : UNION {[1..n -> CoverHashes] : n \in 0..MaxBlockDigests}]

\* what a hasher holds after update was called with each element in turn
RECURSIVE HasherUpdates(_)
HasherUpdates(chunks) ==
    IF chunks = <<>> THEN <<>> ELSE Head(chunks) \o HasherUpdates(Tail(chunks))

\* the hydrated blocks are hashed as well
OutputDigestWithBlocks(o) ==
    <<"hash", o.sub_dag_digest \o o.beneficiary \o HasherUpdates(o.block_digests)
              \o HasherUpdates(o.blocks)>>

\* ConsensusOutput::digest, output.rs lines 109-121: the hash of the sub-DAG
\* digest, the beneficiary and each block digest of the queue in order
OutputDigest(o) ==
    <<"hash", o.sub_dag_digest \o o.beneficiary \o HasherUpdates(o.block_digests)>>

\* what the digests have no hand in
coverFrame == <<stateVars, miningVars, nodeVars, startVars, dialVars>>
CoverRestIdle ==
    /\ StateIdle
    /\ MiningIdle
    /\ NodeIdle
    /\ StartIdle
    /\ DialIdle

\* digest() is called on both outputs
ComputeDigests ==
    /\ digestA = <<>>
    /\ digestA' = <<OutputDigest(outA)>>
    /\ digestB' = <<OutputDigest(outB)>>
    /\ UNCHANGED <<outA, outB, popped>>
    /\ UNCHANGED <<priorVars, coverFrame>>

\* ConsensusOutput::next_block_digest, output.rs lines 66-71, on outA: the
\* front of the queue is taken off and returned, None on an empty queue
NextBlockDigest ==
    /\ popped' = IF outA.block_digests = <<>> THEN <<>> ELSE <<Head(outA.block_digests)>>
    /\ outA' = IF outA.block_digests = <<>> THEN outA
               ELSE [outA EXCEPT !.block_digests = Tail(@)]
    /\ digestA' = <<>>
    /\ digestB' = <<>>
    /\ UNCHANGED outB
    /\ UNCHANGED <<priorVars, coverFrame>>

\* any two outputs, no digest computed yet
CoverInit ==
    /\ PriorIdle
    /\ CoverRestIdle
    /\ outA \in CoverOutputs
    /\ outB \in CoverOutputs
    /\ digestA = <<>>
    /\ digestB = <<>>
    /\ popped = <<>>

CoverNext ==
    \/ ComputeDigests
    \/ NextBlockDigest

CoverSpec == CoverInit /\ [][CoverNext]_vars

(* ------------------------------- claims -------------------------------- *)
\* s is the beginning of t
IsPrefix(s, t) == Len(s) <= Len(t) /\ SubSeq(t, 1, Len(s)) = s
\* s is the end of t
IsSuffix(s, t) == Len(s) <= Len(t) /\ SubSeq(t, Len(t) - Len(s) + 1, Len(t)) = s

\* C1: any two headers sent to the certifier for the same author, round and
\* epoch are the same header, over a run that may shut down and be spawned
\* again on the same ProposerStore.
NonEquivocation ==
    \A h1 \in sent : \A h2 \in sent :
        (h1.author = h2.author /\ h1.round = h2.round /\ h1.epoch = h2.epoch)
            => h1 = h2

\* C2: when the proposer advances to a round for which the store holds the
\* last-proposed header of the committee's epoch, and the store can be read,
\* the result awaited by the select is that very header, nothing is requested
\* from the execution layer, and the digest queue is left as it was; the
\* header then sent is the persisted one.
VerbatimReuse ==
    [][/\ (/\ round' = round + 1
           /\ ev' \notin {"parents", "read_err"}
           /\ store # <<>>
           /\ store[1].round = round + 1
           /\ store[1].epoch = CommitteeEpoch)
          => /\ nextHeader' = [kind |-> "ok", header |-> store[1], digests |-> <<>>]
             /\ digests' = digests
             /\ store' = store
       /\ (ev' = "send" /\ nextHeader.kind = "ok" /\ nextHeader.digests = <<>>)
          => sent' = sent \cup {store[1]}]_vars

\* C2 happens: after a restart the persisted round-1 header, proposed with an
\* empty payload, is taken again although a digest is now queued
VerbatimReuseWitness ==
    /\ ev = "reuse"
    /\ restarted
    /\ nextHeader.kind = "ok"
    /\ nextHeader.header.payload = <<>>
    /\ digests # <<>>

\* C3: a header is written to the store before it goes to the certifier: at
\* the step that sends a header for the first time, the store holds exactly
\* that header before and after the step; and a failing write sends nothing
\* and ends the task.
PersistBeforeEmit ==
    [][/\ \A h \in sent' \ sent : store = <<h>> /\ store' = <<h>>
       /\ ev' = "write_err" => (sent' = sent /\ pc' = "panicked")]_vars

\* C3 happens: a header built from a digest has just been sent
PersistBeforeEmitWitness ==
    /\ ev = "send"
    /\ store # <<>>
    /\ store[1] \in sent
    /\ store[1].payload # <<>>

\* C4: while the proposer runs and no request of it has failed, every digest acknowledged in this run is in
\* the queue, in the header being built, in proposed_headers, or in an own
\* header reported committed.
NoDigestLost ==
    (pc \in {"gate", "select", "sleep", "send", "resend"} /\ nextHeader.kind # "err") =>
        \A d \in (firstDigest + 1)..received :
            \/ d \in SeqToSet(digests)
            \/ /\ nextHeader.kind \in {"building", "sleeping"}
               /\ d \in SeqToSet(nextHeader.header_digests)
            \/ /\ nextHeader.kind = "ok"
               /\ nextHeader.digests # <<>>
               /\ d \in SeqToSet(nextHeader.digests[1])
            \/ \E r \in DOMAIN proposedHeaders : d \in SeqToSet(proposedHeaders[r].digests)
            \/ d \in committed

\* C5: a step that increments the round, other than a jump to the round of
\* received parents, starts from a state with pending parents where the max
\* timer has elapsed, or the digests reach the threshold or the min timer has
\* elapsed while the readiness condition holds of the round, the pending
\* parents and last_leader of that state.
ProposalGate ==
    [][(round' = round + 1 /\ ev' # "parents")
        => /\ lastParents # <<>>
           /\ \/ maxElapsed
              \/ /\ (Len(digests) >= HeaderNumOfBatchesThreshold \/ minElapsed)
                 /\ Ready(round, lastParents, lastLeader)]_vars

\* C6 as stated: at an even round whose leader is this node, the readiness
\* computed on the arrival of parents holds.
EvenRoundLeaderAlwaysReady ==
    (ev = "parents" /\ round % 2 = 0 /\ Leader(round) = Me) => advance

\* C6 amended: at an even round the readiness computed on the arrival of
\* parents holds exactly when a certificate of the round's leader is among
\* the pending parents, whoever the leader is; that certificate is then
\* recorded as last_leader.
EvenRoundReadiness ==
    (ev = "parents" /\ round % 2 = 0) =>
        /\ advance <=> (\E i \in DOMAIN lastParents :
                            lastParents[i].origin = Leader(round))
        /\ advance => /\ lastLeader # <<>>
                      /\ lastLeader[1] \in SeqToSet(lastParents)
                      /\ lastLeader[1].origin = Leader(round)
        /\ ~advance => lastLeader = <<>>

\* C6 happens: this node leads round 2 and has received its own certificate
EvenRoundReadinessWitness ==
    /\ ev = "parents"
    /\ round = 2
    /\ Leader(round) = Me
    /\ advance
    /\ Len(lastParents) > 1

\* C7: at an odd round the readiness computed on the arrival of parents
\* holds iff this node leads the next round, or no last_leader is recorded,
\* or the pending parents referring to last_leader carry a stake of f+1, or
\* those not referring to it carry a stake of 2f+1. The pending parents are
\* those the core gives: one certificate an authority (lines 703-704); every
\* authority has stake 1, so the stake some of them carry is their number.
OddRoundReadiness ==
    (/\ ev = "parents"
     /\ round % 2 = 1
     /\ \A i, j \in DOMAIN lastParents :
            lastParents[i].origin = lastParents[j].origin => i = j) =>
        LET f      == (CommitteeSize - 1) \div 3
            refers == {c \in SeqToSet(lastParents) :
                          /\ lastLeader # <<>>
                          /\ CertDigest(lastLeader[1]) \in CertParents(c)}
        IN  advance <=> \/ Leader(round + 1) = Me
                        \/ lastLeader = <<>>
                        \/ Cardinality(refers) >= f + 1
                        \/ Cardinality(SeqToSet(lastParents) \ refers) >= 2 * f + 1

\* C7 happens: f+1 parents of round 3 refer to the leader of round 2, fewer
\* than 2f+1 do not, and another node leads round 4
OddRoundReadinessWitness ==
    /\ ev = "parents"
    /\ round = 3
    /\ Leader(round + 1) # Me
    /\ lastLeader # <<>>
    /\ Len(SelectSeq(lastParents,
               LAMBDA c : CertDigest(lastLeader[1]) \in CertParents(c))) = 2
    /\ Len(lastParents) = 3
    /\ Cardinality({lastParents[i].origin : i \in DOMAIN lastParents}) = 3
    /\ advance

\* C8: a proposer spawned once that receives no message and meets no failure
\* proposes the empty round-1 header on its timers: once the max timer has
\* elapsed and the proposer waits in the select with nothing being built,
\* only a header already sent can satisfy the claim, so that header is sent.
TimeoutDrivenAdvance ==
    (quiet /\ ~restarted /\ pc = "select" /\ nextHeader.kind = "none" /\ maxElapsed)
        => \E h \in sent : h.round = 1 /\ h.payload = <<>>

\* C9: the build request of a new header carries the digests of all the
\* certificates that were pending when the proposer advanced, and so does
\* the header made from it.
HeaderCarriesPendingParents ==
    /\ nextHeader.kind = "building"
          => nextHeader.req.parents = HeaderParents(nextHeader.parent_certs)
    /\ \A h \in sent : h.round = 1 => h.parents = HeaderParents(Genesis)

\* the step that builds a new header takes the first min(n, cap) digests of
\* the queue in order and leaves the others queued in order
BuildTakesFront ==
    (pc = "gate" /\ ev' = "build") =>
        LET n == IF Len(digests) < MaxHeaderNumOfBatches
                 THEN Len(digests) ELSE MaxHeaderNumOfBatches
        IN  /\ nextHeader'.kind \in {"building", "sleeping"}
            /\ nextHeader'.req.payload = SubSeq(digests, 1, n)
            /\ nextHeader'.header_digests = SubSeq(digests, 1, n)
            /\ digests' = SubSeq(digests, n + 1, Len(digests))

\* C10 as stated: a new header takes the first min(n, cap) digests in order,
\* and the digests the previous build left behind are the first ones in the
\* queue when the next header is built.
PayloadFifoAlways ==
    [][/\ BuildTakesFront
       /\ (pc = "gate" /\ ev' = "build") => IsPrefix(remaining, digests)]_vars

\* C10 amended: a new header takes the first min(n, cap) digests in order;
\* the digests left behind keep their order and are the first ones of the
\* next built header unless a commit notification comes in between, which
\* puts the digests of own uncommitted headers in front of them: outside of
\* a build the queue of a running proposer only grows, at its end, or on a
\* commit notification at its front.
PayloadFifo ==
    [][/\ BuildTakesFront
       /\ (/\ pc \in {"select", "sleep", "send", "resend"}
           /\ pc' \in {"gate", "select", "sleep", "send", "resend"})
            => IF ev' = "commit" /\ pc = "select" /\ pc' = "gate"
               THEN IsSuffix(digests, digests')
               ELSE IsPrefix(digests, digests')]_vars

\* C10 happens: a build has taken a full payload and left a digest queued
PayloadFifoWitness ==
    /\ ev = "build"
    /\ nextHeader.kind = "building"
    /\ Len(nextHeader.req.payload) = MaxHeaderNumOfBatches
    /\ digests # <<>>

\* C11: the created_at of a newly built header is the larger of the clock at
\* the advance and the newest created_at of its parents, so it is below no
\* parent's created_at.
CreatedAtIsMax ==
    createdAt # <<>> =>
        /\ createdAt[1] = MaxOf({currentTime[1]} \cup parentTimes)
        /\ \A t \in parentTimes : createdAt[1] >= t

\* C12: when the build request of the execution layer fails, the round is
\* again the one before the attempt, and the failure does not end the task.
BuildFailureKeepsRound ==
    [][/\ (nextHeader.kind = "building" /\ nextHeader'.kind = "err")
            => round' = nextHeader.req.round - 1
       /\ (pc = "select" /\ nextHeader.kind = "err") => pc' # "panicked"]_vars

RECURSIVE PendingUpTo(_, _, _, _)
\* the digests of the entries of ph with a round in k..m that is not in hs,
\* round after round
PendingUpTo(ph, hs, k, m) ==
    IF k > m THEN <<>>
    ELSE (IF k \in DOMAIN ph /\ k \notin hs THEN ph[k].digests ELSE <<>>)
            \o PendingUpTo(ph, hs, k + 1, m)

\* C13: after a commit notification with greatest committed round M, no
\* entry of proposed_headers has a round <= M, the entries above M are as
\* before, and the queue is the digests of the uncommitted entries up to M,
\* oldest round first and each in its own order, followed by the queue as
\* it was; digests of committed rounds are not among the re-queued ones.
CommitFeedbackRequeues ==
    [][(pc = "select" /\ ev' = "commit") =>
          LET M == IF commitInput = {} THEN 0
                   ELSE CHOOSE m \in commitInput : \A x \in commitInput : x <= m
          IN  /\ DOMAIN proposedHeaders' = {r \in DOMAIN proposedHeaders : r > M}
              /\ \A r \in DOMAIN proposedHeaders' : proposedHeaders'[r] = proposedHeaders[r]
              /\ digests' = PendingUpTo(proposedHeaders, commitInput, 1, M) \o digests
              /\ \A r \in commitInput \cap DOMAIN proposedHeaders :
                    \A i \in 1..Len(proposedHeaders[r].digests) :
                        \A j \in 1..(Len(digests') - Len(digests)) :
                            digests'[j] # proposedHeaders[r].digests[i]]_vars

\* C13 happens: round 3 was committed, the digests of the uncommitted rounds
\* 1 and 2 stand in front of the two digests that were queued; the header
\* of round 1 carried its two digests the later one first, and so they are
\* queued
CommitFeedbackWitness ==
    /\ ev = "commit"
    /\ commitInput = {MaxRound}
    /\ proposedHeaders = <<>>
    /\ Len(digests) = 2 * MaxHeaderNumOfBatches + 2
    /\ digests[1] > digests[2]
    /\ digests[2] < digests[MaxHeaderNumOfBatches + 1]

\* C14: the timer branch is taken only when header_resend_timeout has passed
\* since the timer was set, and it is set when the task starts, at every new
\* header sent and at every re-send; the branch sends the last header
\* proposed, the one the store holds, and nothing else; it sends nothing
\* while no header has been proposed; and once a header has been proposed
\* the re-sends never stop, until the proposer stands at the open gate of
\* the last round it is followed to.
HeaderResend ==
    /\ [][/\ (pc = "select" /\ pc' # "select" /\ ev' \in {"repeat", "resend_wait"}) =>
                headerRepeatTimer = 0
          /\ headerRepeatTimer' # headerRepeatTimer =>
                \/ headerRepeatTimer' = headerRepeatTimer - 1
                \/ /\ headerRepeatTimer' = headerResendTimeout
                   /\ pc \in {"send", "resend"}
          /\ (pc = "send" /\ ev' = "send") =>
                headerRepeatTimer' = headerResendTimeout
          /\ (pc = "resend" /\ ev' = "resend") =>
                /\ headerRepeatTimer' = headerResendTimeout
                /\ optLatestHeader # <<>>
                /\ store # <<>>
                /\ sent' = sent \cup {store[1]}
                /\ store[1] \in sent
                /\ \A h \in sent : h.round <= store[1].round
          /\ (pc = "select" /\ ev' = "repeat") =>
                /\ sent' = sent
                /\ optLatestHeader = <<>>]_vars
    /\ [](optLatestHeader # <<>> =>
            <>(ev = "resend" \/ (pc = "gate" /\ Open /\ round = MaxRound)))
    /\ [](sent = {} => ev # "resend")

\* C14 happens: the header of round 2 has just been sent again, a timeout of
\* two ticks after it was sent, and the timer runs anew
HeaderResendWitness ==
    /\ ev = "resend"
    /\ pc = "gate"
    /\ headerResendTimeout = MaxResendTimeout
    /\ headerRepeatTimer = headerResendTimeout
    /\ optLatestHeader # <<>>
    /\ optLatestHeader[1].round = 2
    /\ optLatestHeader[1] \in sent

\* C15: wherever the proposer task is awaiting (the select, the clock-drift
\* sleep, the send of a new header to the certifier, the send of the timer
\* branch) the shutdown branch can be taken.
ShutdownCoversAwaits ==
    pc \in {"select", "sleep", "send", "resend"} => ENABLED Shutdown

\* C16: with the sub-DAGs 1..N in the consensus log and k the last executed
\* index, get_restored_consensus_output returns N - k sub-DAGs, the i-th of
\* them being the sub-DAG of index k + i that consensus emitted.
RecoveryReturnsMissing ==
    [][restored' # restored =>
          LET k   == restored'[1].k
              out == restored'[1].out
              N   == Len(consensusLog)
          IN  /\ \A i \in 1..N : consensusLog[i].sub_dag_index = i
              /\ Len(out) = N - k
              /\ \A i \in 1..Len(out) :
                    /\ out[i].sub_dag_index = k + i
                    /\ out[i].leader = subDags[k + i].leader
                    /\ out[i].certificates = subDags[k + i].certificates]_vars

\* C16 happens: three sub-DAGs are logged and the restart with k = 1 has
\* returned two of them
RecoveryWitness ==
    /\ Len(consensusLog) = 3
    /\ restored # <<>>
    /\ restored[1].k = 1
    /\ Len(restored[1].out) = 2

\* C17: from one emitted sub-DAG to the next the sub_dag_index grows by
\* exactly 1.
SequentialIndices ==
    \A i \in 1..(Len(subDags) - 1) :
        subDags[i + 1].sub_dag_index = subDags[i].sub_dag_index + 1

\* C17 happens: the sub-DAGs 1 and 2 have been emitted
SequentialIndicesWitness ==
    /\ Len(subDags) >= 2
    /\ subDags[1].sub_dag_index = 1
    /\ subDags[2].sub_dag_index = 2

\* C18: the commit_timestamp field of a sub-DAG is the greater of its
\* predecessor's field and its leader's created_at (the leader's created_at
\* for the first one), and commit_timestamp() never decreases along the
\* emitted sub-DAGs.
MonotonicCommitTimestamp ==
    /\ \A i \in 1..Len(subDags) :
          LET t == subDags[i].leader.created_at IN
          subDags[i].commit_timestamp =
              IF i = 1 THEN t
              ELSE IF subDags[i - 1].commit_timestamp > t
                   THEN subDags[i - 1].commit_timestamp ELSE t
    /\ \A i \in 1..Len(subDags) : \A j \in i..Len(subDags) :
          CommitTimestamp(subDags[i]) <= CommitTimestamp(subDags[j])

\* C18 happens: the leader of the second sub-DAG is older than the leader of
\* the first
MonotonicCommitTimestampWitness ==
    /\ Len(subDags) >= 2
    /\ subDags[2].leader.created_at < subDags[1].leader.created_at
    /\ CommitTimestamp(subDags[2]) = subDags[1].leader.created_at

\* C19: a sub-DAG re-hydrated from its commit record has the index, the
\* scores, the commit timestamp and the digest of the sub-DAG that was
\* emitted, and is the emitted sub-DAG itself.
RehydratedIsEmitted ==
    restored # <<>> =>
        \A i \in 1..Len(restored[1].out) :
            LET r == restored[1].out[i]
                s == subDags[restored[1].k + i]
            IN  /\ r.sub_dag_index = s.sub_dag_index
                /\ r.reputation_score = s.reputation_score
                /\ r.commit_timestamp = s.commit_timestamp
                /\ CommitTimestamp(r) = CommitTimestamp(s)
                /\ SubDagDigest(r) = SubDagDigest(s)
                /\ r = s

\* C19 happens: a sub-DAG whose commit timestamp is not its leader's has
\* been re-hydrated
RehydratedWitness ==
    /\ restored # <<>>
    /\ \E i \in 1..Len(restored[1].out) :
          /\ restored[1].out[i].commit_timestamp # restored[1].out[i].leader.created_at
          /\ restored[1].out[i].reputation_score = 1

\* C20: for any gc_round and any map of round sets, set_bounds returns a
\* request, and get_bounds on it returns gc_round and the same map.
BitmapRoundTrip ==
    /\ request # <<>> => request[1].kind \in {"ok", "received"}
    /\ (bounds # <<>> /\ request[1].kind = "ok") =>
          bounds[1] = <<fetchInput.gc_round, fetchInput.skip_rounds>>

\* C21 as stated: bit i of an authority's bitmap stands for round
\* exclusive_lower_bound + 1 + i, in set_bounds and in get_bounds.
BitOffsetAboveBound ==
    /\ (request # <<>> /\ request[1].kind = "ok") =>
          \A k \in DOMAIN request[1].skip_rounds :
              {request[1].exclusive_lower_bound + 1 + i :
                    i \in BitmapDeserialize(request[1].skip_rounds[k])}
                = fetchInput.skip_rounds[k]
    /\ bounds # <<>> =>
          \A k \in DOMAIN request[1].skip_rounds :
              ~DeserializeFails(request[1].skip_rounds[k]) =>
                  /\ k \in DOMAIN bounds[1][2]
                  /\ bounds[1][2][k] =
                        {request[1].exclusive_lower_bound + 1 + i :
                              i \in BitmapDeserialize(request[1].skip_rounds[k])}

\* C21 amended: bit i of an authority's bitmap stands for round
\* exclusive_lower_bound + i: set_bounds encodes a held round R as bit
\* R - gc_round and get_bounds decodes bit i as exclusive_lower_bound + i,
\* for every entry whose bytes deserialize; the others are left out.
BitOffset ==
    /\ (request # <<>> /\ request[1].kind = "ok") =>
          /\ request[1].exclusive_lower_bound = fetchInput.gc_round
          /\ \A k \in DOMAIN request[1].skip_rounds :
                {request[1].exclusive_lower_bound + i :
                      i \in BitmapDeserialize(request[1].skip_rounds[k])}
                  = fetchInput.skip_rounds[k]
    /\ bounds # <<>> =>
          /\ bounds[1][1] = request[1].exclusive_lower_bound
          /\ \A k \in DOMAIN request[1].skip_rounds :
                IF DeserializeFails(request[1].skip_rounds[k])
                THEN k \notin DOMAIN bounds[1][2]
                ELSE /\ k \in DOMAIN bounds[1][2]
                     /\ bounds[1][2][k] =
                          {request[1].exclusive_lower_bound + i :
                                i \in BitmapDeserialize(request[1].skip_rounds[k])}

\* C21 happens: a request with gc_round 1 that holds rounds 1 and 3 of an
\* authority (bits 0 and 2) has been read back
BitOffsetWitness ==
    /\ bounds # <<>>
    /\ request[1].kind = "ok"
    /\ fetchInput.gc_round = 1
    /\ \E k \in DOMAIN request[1].skip_rounds :
          /\ fetchInput.skip_rounds[k] = {1, 3}
          /\ BitmapDeserialize(request[1].skip_rounds[k]) = {0, 2}

\* C22: a digest taken of a block is the digest of every block with the same
\* transactions, parent_hash, beneficiary, timestamp and base_fee_per_gas,
\* whatever received_at either of them has or had.
DigestIgnoresReceivedAt ==
    \A i \in 1..2 : \A j \in 1..2 :
        (blockDigests[i] # <<>> /\ SameContent(blocks[i], blocks[j])) =>
            /\ blockDigests[i][1] = WorkerBlockDigest(blocks[j])
            /\ blockDigests[j] # <<>> => blockDigests[j] = blockDigests[i]

\* C22 happens: two blocks with the same content and different received_at
\* have both had their digest taken, one of them before it was received
DigestWitness ==
    /\ blockDigests[1] # <<>>
    /\ blockDigests[2] # <<>>
    /\ SameContent(blocks[1], blocks[2])
    /\ blocks[1].transactions # <<>>
    /\ blocks[1].received_at = <<0>>
    /\ blocks[2].received_at = <<1>>

\* C23: a failed read of the last-proposed record does not end the proposer
\* task: the step after the failed read is never the panic.
ReadFailureRetried ==
    [][(pc = "select" /\ ev = "read_err" /\ nextHeader.kind = "err")
            => pc' # "panicked"]_vars

\* C24: validate returns Ok iff the proof of every listed validator was made
\* by that validator's own key over the chain spec of the genesis; a proof
\* over another chain spec makes it an error.
GenesisValidation ==
    validated # <<>> =>
        LET g == validated[1].genesis IN
        /\ (validated[1].result = "ok") <=>
              (\A k \in DOMAIN g.validators :
                    g.validators[k].proof_of_possession =
                        GenerateProofOfPossession(k, g.chain))
        /\ (\E k \in DOMAIN g.validators :
                g.validators[k].proof_of_possession.chain # g.chain)
              => validated[1].result = "err"

\* C24 happens: two validators, the second with a proof over another chain
\* spec, have been validated
GenesisValidationWitness ==
    /\ validated # <<>>
    /\ DOMAIN validated[1].genesis.validators = GenesisKeys
    /\ validated[1].genesis.validators[1].proof_of_possession =
            GenerateProofOfPossession(1, "yukon")
    /\ validated[1].genesis.validators[2].proof_of_possession =
            GenerateProofOfPossession(2, "other")
    /\ validated[1].result = "err"

\* C25: once seal_batch has returned for a batch that was not in the store,
\* the store holds that batch under its digest, and a response carries the
\* batch, its digest and the worker's id.
SealPersistsLocally ==
    (sealed # <<>> /\ BatchDigest(Batch(sealed[1].payload)) \notin DOMAIN sealed[1].before) =>
        LET batch == Batch(sealed[1].payload) IN
        /\ BatchDigest(batch) \in DOMAIN batchStore
        /\ batchStore[BatchDigest(batch)] = batch
        /\ sealed[1].result = "ok" =>
              sealed[1].response =
                  <<[batch |-> batch, digest |-> BatchDigest(batch), worker_id |-> Worker.id]>>

\* C25 happens: a batch that was not stored has been sealed with the quorum
\* waiter's acknowledgement
SealWitness ==
    /\ sealed # <<>>
    /\ sealed[1].before = <<>>
    /\ sealed[1].result = "ok"
    /\ DOMAIN batchStore = {BatchDigest(Batch(sealed[1].payload))}

\* C26: once synchronize has succeeded every requested digest is in the
\* store, whatever was missing having been requested from the worker of the
\* target authority; with nothing missing it succeeds and sends no request.
SynchronizeFillsStore ==
    [][(synced' # <<>> /\ synced' # synced) =>
          LET s       == synced'[1]
              missing == {d \in s.digests : d \notin DOMAIN s.before}
          IN  /\ s.before = batchStore
              /\ s.result = "ok" =>
                    /\ \A d \in s.digests :
                          d \in DOMAIN batchStore' /\ BatchDigest(batchStore'[d]) = d
                    /\ missing # {} =>
                          s.requests = {[to |-> TargetAuthority, batch_digests |-> missing]}
              /\ missing = {} =>
                    /\ s.result = "ok"
                    /\ s.requests = {}
                    /\ batchStore' = batchStore]_vars

\* C26 happens: two digests were requested, one of them was missing and has
\* been fetched
SynchronizeWitness ==
    /\ synced # <<>>
    /\ synced[1].result = "ok"
    /\ Cardinality(synced[1].digests) = 2
    /\ Cardinality(DOMAIN synced[1].before) = 1
    /\ synced[1].requests # {}
    /\ Cardinality(DOMAIN batchStore) = 2

\* C27: a build that is in flight or answered is never discarded: from the
\* select with a build request pending or answered successfully, no digest,
\* parents, commit feedback or timer step takes the loop back to the gate
\* with the result dropped.
BuildResultKept ==
    [][(pc = "select" /\ nextHeader.kind \in {"building", "ok"}
          /\ ev' \in {"digest", "parents", "parents_ignored", "commit",
                      "max_timer", "min_timer", "repeat", "resend_wait"})
          => nextHeader'.kind \in {"building", "ok"}]_vars

\* C28: within one run of the proposer task the round never decreases; it
\* changes only by +1 when the gate opens (a build, a reused header or a
\* failed read of the store) or by the jump to the round of a parents message
\* of a strictly greater round; and every header requested or obtained is for
\* the proposer's round at that time and the committee's epoch.
RoundMonotonic ==
    /\ [](/\ nextHeader.kind \in {"building", "sleeping"} =>
                /\ nextHeader.req.round = round
                /\ nextHeader.req.epoch = CommitteeEpoch
          /\ nextHeader.kind = "ok" =>
                /\ nextHeader.header.round = round
                /\ nextHeader.header.epoch = CommitteeEpoch)
    /\ [][ev' # "spawn" =>
            /\ round' >= round
            /\ round' # round =>
                  \/ /\ round' = round + 1
                     /\ pc = "gate"
                     /\ ev' \in {"build", "reuse", "read_err"}
                  \/ /\ round' > round
                     /\ pc = "select"
                     /\ ev' = "parents"
                     /\ lastParents' # <<>>
                     /\ \A i \in DOMAIN lastParents' : lastParents'[i].round = round'
            /\ (pc = "gate" /\ ev' \in {"build", "reuse", "read_err"}) =>
                  round' = round + 1]_vars

\* C28 happens: the round went up by a jump and then by an advance whose
\* header was built for the new round
RoundMonotonicWitness ==
    /\ round = 3
    /\ pc = "send"
    /\ nextHeader.kind = "ok"
    /\ nextHeader.header.round = 3
    /\ \E h \in sent : h.round = 1
    /\ \A h \in sent : h.round # 2

\* C29: a parents message of another epoch, or of a round below the round of
\* the proposer, leaves the round, the pending parents, the last leader, the
\* readiness flag, the digest queue and both timers as they were.
StaleParentsIgnored ==
    [][(/\ pc = "select"
        /\ pc' = "gate"
        /\ ev' \in {"parents", "parents_ignored"}
        /\ (parentsInput.epoch # CommitteeEpoch \/ parentsInput.round < round))
          => /\ ev' = "parents_ignored"
             /\ UNCHANGED <<round, lastParents, lastLeader, advance, digests,
                            maxElapsed, minElapsed>>]_vars

\* C29 happens: a message of the committee's epoch and of an older round has
\* just been ignored by a proposer that holds parents, a leader, digests and
\* an expired timer
StaleParentsWitness ==
    /\ pc = "gate"
    /\ ev = "parents_ignored"
    /\ parentsInput.epoch = CommitteeEpoch
    /\ parentsInput.round < round
    /\ lastParents # <<>>
    /\ lastLeader # <<>>
    /\ digests # <<>>
    /\ minElapsed

\* C30: a parents message of the committee's epoch with the round of the
\* proposer adds its certificates to the pending parents and leaves the
\* timers alone; one with a greater round sets the round to its round, makes
\* its certificates the pending parents and restarts both delay timers; in
\* both cases the readiness flag is computed anew from the new round and the
\* new parents: at an even round whether the leader's certificate is among
\* them, at an odd round whether the votes suffice.
ParentsAccepted ==
    [][(/\ pc = "select"
        /\ pc' = "gate"
        /\ ev' \in {"parents", "parents_ignored"}
        /\ parentsInput.epoch = CommitteeEpoch
        /\ parentsInput.round >= round)
          => /\ ev' = "parents"
             /\ parentsInput.round = round =>
                   /\ round' = round
                   /\ lastParents' = lastParents \o parentsInput.certs
                   /\ UNCHANGED <<maxElapsed, minElapsed>>
             /\ parentsInput.round > round =>
                   /\ round' = parentsInput.round
                   /\ lastParents' = parentsInput.certs
                   /\ ~maxElapsed'
                   /\ ~minElapsed'
             /\ advance' = IF round' % 2 = 0
                           THEN \E i \in DOMAIN lastParents' :
                                    lastParents'[i].origin = Leader(round')
                           ELSE EnoughVotes(round', lastParents', lastLeader)]_vars

\* C30 happens: certificates of the proposer's round have just been added to
\* pending parents that an earlier jump to this round had put in place (no
\* digest and no expired timer can have opened the gate), and the proposer is
\* ready
ParentsAcceptedWitness ==
    /\ pc = "gate"
    /\ ev = "parents"
    /\ round = MaxRound
    /\ parentsInput.epoch = CommitteeEpoch
    /\ parentsInput.round = round
    /\ Len(parentsInput.certs) < Len(lastParents)
    /\ SubSeq(lastParents, Len(lastParents) - Len(parentsInput.certs) + 1,
              Len(lastParents)) = parentsInput.certs
    /\ received = 0
    /\ ~maxElapsed
    /\ ~minElapsed
    /\ advance

\* C31: whenever parents are pending, the readiness flag is the readiness
\* condition of the current round on the current pending parents, so the gate
\* is never passed on a value computed for an earlier round or an earlier
\* set of parents.
AdvanceFresh ==
    lastParents # <<>> => advance = Ready(round, lastParents, lastLeader)

\* C32: every OurDigestMessage the proposer takes from the channel is put at
\* the back of the digest queue, exactly one () is sent on its ack channel if
\* it has one, at that very step, and the proposer goes on, whether the
\* message carries an ack channel or not.
DigestIntake ==
    [][(pc = "select" /\ digestInput # <<>> /\ digestInput' = <<>>) =>
          /\ pc' = "gate"
          /\ digests' = Append(digests, digestInput[1].digest)
          /\ acks' = IF digestInput[1].ack_channel = <<>> THEN acks
                     ELSE Append(acks, digestInput[1].ack_channel[1])]_vars

\* C33: for each (commit_round, certificates) the state handler has received
\* it has made exactly one send of (commit_round, rounds), rounds being the
\* rounds of the certificates this authority wrote, in their committed order
\* and empty when none is its own; the channel to the proposer has taken
\* these messages in the order of the commits, all of them while its receiver
\* lives but the one whose send waits for room, and the proposer takes them
\* out in that order.
CommitNotification ==
    /\ Len(sendCalls) = handled
    /\ \A i \in 1..handled :
          LET own == SelectSeq(sequenced[i].certificates, LAMBDA c : c.origin = Me)
          IN  /\ sendCalls[i].commit_round = sequenced[i].commit_round
              /\ Len(sendCalls[i].rounds) = Len(own)
              /\ \A k \in 1..Len(own) : sendCalls[i].rounds[k] = own[k].round
    /\ Len(ownHeaders) <= Len(sendCalls)
    /\ ownHeaders = SubSeq(sendCalls, 1, Len(ownHeaders))
    /\ (rxOwnOpen /\ handlerPc # "sending") => ownHeaders = sendCalls
    /\ handlerPc = "sending" =>
          /\ sendCalls # <<>>
          /\ ownHeaders = SubSeq(sendCalls, 1, Len(sendCalls) - 1)
    /\ ownTaken <= Len(ownHeaders)
    /\ Len(ownHeaders) - ownTaken <= OwnCapacity

\* C33 happens: two commits were handled and reached the proposer in order,
\* the first with two own certificates in descending rounds, the second with
\* nothing of this authority
CommitNotificationWitness ==
    /\ handled = 2
    /\ ownTaken = 2
    /\ Len(ownHeaders) = 2
    /\ ownHeaders[1] = [commit_round |-> 4, rounds |-> <<2, 1>>]
    /\ ownHeaders[2].rounds = <<>>
    /\ ownHeaders[2].commit_round = 2
    /\ sequenced[2].certificates # <<>>

\* C34: at most one insert future is in flight; the sets of transactions the
\* miner returned are started in the order of their delivery, the rest of
\* them waiting in the queue in that order; and a future is created only
\* when every earlier one has completed, with or without success.
OneInsertInFlight ==
    /\ started \o queued = delivered
    /\ Len(started) - Len(completed) \in {0, 1}
    /\ (insertTask # <<>>) = (Len(started) = Len(completed) + 1)
    /\ insertTask # <<>> => insertTask[1] = started[Len(started)]
    /\ \A i \in 1..Len(completed) : completed[i].transactions = started[i]

\* C34 happens: three sets were delivered; the first failed, the second is
\* being sealed and the third waits
OneInsertInFlightWitness ==
    /\ Len(delivered) = 3
    /\ Len(completed) = 1
    /\ completed[1].result # "Ok"
    /\ insertTask # <<>>
    /\ Len(queued) = 1
    /\ minePc = "parked"

\* C35: transactions leave the pool, and the pending state is published, only
\* at the completion of an insert future whose block was sealed, and then it
\* is that future's transactions that leave and, if the watch channel has a
\* receiver, that future's state that is published; a future whose build failed or
\* whose seal returned Timeout, AntiQuorum, QuorumRejected, Network or Rpc
\* leaves the pool and the pending state as they were; either way the result
\* is dropped and the task polls the miner and the queue again.
PoolRemovalAfterSeal ==
    [][/\ ((\E t \in pool : t \notin pool') \/ watchTx' # watchTx) =>
             /\ Len(completed') = Len(completed) + 1
             /\ completed'[Len(completed')].outcome = "sealed"
       /\ Len(completed') = Len(completed) + 1 =>
             LET last == completed'[Len(completed')]
             IN  /\ insertTask = <<last.transactions>>
                 /\ last.outcome = "sealed" =>
                       /\ last.result = "Ok"
                       /\ pool' = pool \ last.transactions
                       /\ watchTx' = IF watchRx > 0 THEN <<last.transactions>>
                                     ELSE watchTx
                 /\ last.outcome # "sealed" =>
                       /\ last.result \in {"Timeout", "AntiQuorum", "QuorumRejected",
                                           "Network", "Rpc"}
                       /\ pool' = pool
                       /\ watchTx' = watchTx
                 /\ insertTask' = <<>>
                 /\ minePc' = "miner"
                 /\ queued' = queued]_vars

\* C35 happens: the seal of a set was rejected, its transactions are still in
\* the pool, nothing was published, and the next set is being sealed
PoolRemovalWitness ==
    /\ Len(completed) = 1
    /\ completed[1].outcome = "AntiQuorum"
    /\ completed[1].transactions # {}
    /\ completed[1].transactions \subseteq pool
    /\ watchTx = <<>>
    /\ insertTask # <<>>
    /\ minePc = "task"

\* C36: a start called while some handle of the node is still running returns
\* NodeAlreadyRunning and leaves the handles, the shutdown sender and the
\* tasks as they were; a start that succeeds found no handle running.
StartExclusive ==
    [][(calls' = calls + 1 /\ lastCall'.op = "start") =>
          /\ IsRunning(handles) =>
                /\ lastCall'.result = "NodeAlreadyRunning"
                /\ UNCHANGED <<handles, txShutdown, noticed, notices, orphans, nodePc>>
          /\ lastCall'.result = "Ok" => ~IsRunning(handles)]_vars

\* C36 happens: a start was refused on a node with one task ended and the
\* other still running, its shutdown sender in place
StartExclusiveWitness ==
    /\ lastCall = [op |-> "start", result |-> "NodeAlreadyRunning"]
    /\ handles = <<"panicked", "running">>
    /\ txShutdown # <<>>
    /\ calls >= 2

\* C37: a shutdown of a node that is not running returns at once and sends no
\* notice; on a running node it sends the notice once and returns only when
\* every handle has completed, so that nothing is running any more.
ShutdownWaitsForHandles ==
    [][/\ (calls' = calls + 1 /\ lastCall'.op = "shutdown" /\ ~IsRunning(handles)) =>
             /\ lastCall'.result = "returned"
             /\ notices' = notices
       /\ (calls' = calls + 1 /\ lastCall'.op = "shutdown" /\ IsRunning(handles)) =>
             /\ Len(notices') = Len(notices) + 1
             /\ nodePc' = "joining"
       /\ (nodePc = "joining" /\ nodePc' # "joining") =>
             /\ nodePc' = "idle"
             /\ ~IsRunning(handles')]_vars

\* C38: the receiver is made before the primary is spawned, and every
\* output broadcast, the restored ones included, has been delivered to the
\* engine or is still to come on a receiver the engine holds, unless the
\* receiver has fallen behind by more than the capacity of the channel.
NoOutputMissed ==
    /\ "spawn_primary" \in StartDone => "subscribe" \in StartDone
    /\ \A i \in 1..Len(broadcastLog) :
          \/ Len(broadcastLog) - i >= BroadcastCapacity
          \/ /\ consensusOutputRx # <<>>
             /\ i > consensusOutputRx[1]

\* C39: the task of a peer dials until a dial succeeds and has no other way
\* out of its loop; the wait after the i-th failure is 1 second doubled i - 1
\* times and from the eighth failure on 128 seconds, so never more than 128;
\* the connected counter counts exactly the peers whose dial has succeeded,
\* each once.
DialBackoff ==
    /\ \A p \in DialPeers :
          /\ dialPc[p] \in {"idle", "dialing", "sleeping", "connected"}
          /\ \A i \in 1..Len(waits[p]) :
                /\ waits[p][i] = (IF i >= 8 THEN 128 ELSE 2 ^ (i - 1))
                /\ waits[p][i] <= 128
          /\ dialPc[p] = "sleeping" => waits[p] # <<>>
          /\ dialPc[p] \in {"dialing", "sleeping"} => ENABLED (DialOk(p) \/ DialRetry(p))
    /\ connectedCount = Cardinality({p \in DialPeers : dialPc[p] = "connected"})

\* C39 happens: the primary was connected after nine failed dials, the last
\* two waits being 128 seconds, and the worker at its first dial
DialBackoffWitness ==
    /\ dialPc["primary"] = "connected"
    /\ Len(waits["primary"]) = 9
    /\ waits["primary"][8] = 128
    /\ waits["primary"][9] = 128
    /\ dialPc["worker"] = "connected"
    /\ waits["worker"] = <<>>
    /\ connectedCount = 2

\* C40: the digests of two ConsensusOutputs are equal exactly when the
\* outputs have the same sub-DAG digest, the same beneficiary and the same
\* queue of block digests in the same order; the hydrated blocks play no
\* part, and a queue of other content or other order gives another digest.
DigestCoverage ==
    (digestA # <<>> /\ digestB # <<>>) =>
        (digestA = digestB <=>
            /\ outA.sub_dag_digest = outB.sub_dag_digest
            /\ outA.beneficiary = outB.beneficiary
            /\ outA.block_digests = outB.block_digests)

\* C40 happens: two outputs of different hydrated blocks whose queues hold
\* the same two block digests in the other order have different digests
DigestCoverageWitness ==
    /\ digestA # <<>>
    /\ digestA # digestB
    /\ Len(outA.block_digests) = 2
    /\ outA.block_digests[1] # outA.block_digests[2]
    /\ outB.block_digests = <<outA.block_digests[2], outA.block_digests[1]>>
    /\ outA.sub_dag_digest = outB.sub_dag_digest
    /\ outA.beneficiary = outB.beneficiary
    /\ outA.blocks # outB.blocks
====
